---- MODULE Spec2Model ----
(***************************************************************************)
(* A model of the cobble toolchain over the instruction data model         *)
(* (compiler/ast.rs): the interpreter, i.e. the register file and flags    *)
(* (interpreter/state.rs), the step function `interpret`                   *)
(* (interpreter/vm.rs) and the driving loop `interpret_program`            *)
(* (interpreter/mod.rs); the compiler, i.e. the line parser                *)
(* (compiler/parser.rs) and the two symbol passes (compiler/symbol.rs);    *)
(* and the instruction encoder (assembler/encoder.rs).                     *)
(***************************************************************************)
EXTENDS Integers, Sequences, FiniteSets, TLC

VARIABLES
    prg,     \* the Program handed to interpret_program (<<>> for a direct call of interpret)
    state,   \* the machine State: [pc, regs, flags]
    ctl,     \* "loop": inside interpret_program's loop; "returned": it returned (status, state);
             \* "caller": a caller is about to call interpret; "called": that call returned;
             \* "aborted": the process panicked
    status,  \* the Option<InterpreterError> interpret_program returns (read when ctl = "returned")
    last,    \* the latest call of interpret: [instr, pre, post, res], or NoStep
    initial_state,  \* interpret_program's argument: None, or Some State to start from
    comp,    \* the compiler's data: [stage, ...] with the input and the result of each pass run
    enc      \* the encoder's data: [stage, ...] with the input and the result of encode

vars == <<prg, state, ctl, status, last, initial_state, comp, enc>>

----------------------------------------------------------------------------
(* Bounds of the model *)

\* registers 0..MaxRegSel are selectable as operands (besides r15 and the nonexistent r16)
MaxRegSel == 1
\* 8-bit sample values: 0..ValLow and (255 - ValHigh)..255
ValLow == 1
ValHigh == 1
\* branch targets 0..MaxTarget (besides the largest 12-bit immediate)
MaxTarget == 1
\* programs of up to MaxPrgLen instructions over the control-flow alphabet
MaxPrgLen == 3
\* initial program counters 0..MaxPC
MaxPC == 1

(* Program constants *)

\* u8::MAX: registers and 8-bit immediates
U8Max == 255
\* u16::MAX: State.pc is a u16
U16Max == 65535
\* the registers are r0..r15: indices 16 and above do not exist
NumRegs == 16
\* the largest 12-bit immediate the parser accepts
Imm12Max == 4095

----------------------------------------------------------------------------
(* compiler/ast.rs: operands and instructions *)

Reg(n) == [k |-> "Reg", v |-> n]
Imm8(n) == [k |-> "Imm8", v |-> n]
Imm12(n) == [k |-> "Imm12", v |-> n]
LabelOp(l) == [k |-> "Label", name |-> l]

Label(l) == [op |-> "Label", name |-> l]
Halt == [op |-> "Halt"]
Nop == [op |-> "Nop"]
Mv(rd, rs1) == [op |-> "Mv", rd |-> rd, rs1 |-> rs1]
Not(rd, rs1) == [op |-> "Not", rd |-> rd, rs1 |-> rs1]
Add(rd, rs1, rs2) == [op |-> "Add", rd |-> rd, rs1 |-> rs1, rs2 |-> rs2]
Sub(rd, rs1, rs2) == [op |-> "Sub", rd |-> rd, rs1 |-> rs1, rs2 |-> rs2]
And(rd, rs1, rs2) == [op |-> "And", rd |-> rd, rs1 |-> rs1, rs2 |-> rs2]
Or(rd, rs1, rs2) == [op |-> "Or", rd |-> rd, rs1 |-> rs1, rs2 |-> rs2]
Xor(rd, rs1, rs2) == [op |-> "Xor", rd |-> rd, rs1 |-> rs1, rs2 |-> rs2]
Addi(rd, rs1, imm) == [op |-> "Addi", rd |-> rd, rs1 |-> rs1, imm |-> imm]
Andi(rd, rs1, imm) == [op |-> "Andi", rd |-> rd, rs1 |-> rs1, imm |-> imm]
Ori(rd, rs1, imm) == [op |-> "Ori", rd |-> rd, rs1 |-> rs1, imm |-> imm]
Xori(rd, rs1, imm) == [op |-> "Xori", rd |-> rd, rs1 |-> rs1, imm |-> imm]
Jmp(imm) == [op |-> "Jmp", imm |-> imm]
Bz(imm) == [op |-> "Bz", imm |-> imm]
Bnz(imm) == [op |-> "Bnz", imm |-> imm]

UnaryOps == {"Mv", "Not"}
BinaryOps == {"Add", "Sub", "And", "Or", "Xor"}
ImmediateOps == {"Addi", "Andi", "Ori", "Xori"}
BranchOps == {"Jmp", "Bz", "Bnz"}

----------------------------------------------------------------------------
(* Option and Result values *)

None == [tag |-> "None"]
Some(x) == [tag |-> "Some", v |-> x]

\* Ok(Some(a)): continue at address a
OkSome(a) == [tag |-> "OkSome", pc |-> a]
\* Ok(None): halt
OkNone == [tag |-> "OkNone"]
Err(e) == [tag |-> "Err", err |-> e]
\* the process aborts (an arithmetic-overflow panic of a checked build)
Abort == [tag |-> "Abort"]

(* interpreter/vm.rs: InterpreterError *)
InvalidInstruction(i) == [e |-> "InvalidInstruction", instr |-> i]
InvalidOperands(i) == [e |-> "InvalidOperands", instr |-> i]
InvalidRegister(r) == [e |-> "InvalidRegister", reg |-> r]
PCOutOfBounds(a) == [e |-> "PCOutOfBounds", pc |-> a]

----------------------------------------------------------------------------
(* interpreter/state.rs: Registers, Flags, State *)

\* Registers([u8; 15]): the cell of register i (1..15) is self.0[i - 1], here regs[i]
RegistersDefault == [i \in 1..(NumRegs - 1) |-> 0]

\* From<(bool, bool)> for Flags
Flags(z, o) == [zero |-> z, overflow |-> o]

FlagsDefault == Flags(TRUE, FALSE)

StateDefault == [pc |-> 0, regs |-> RegistersDefault, flags |-> FlagsDefault]

\* Registers::r
r(regs, reg) ==
    CASE reg = 0 -> Some(0)
      [] reg \in 1..15 -> Some(regs[reg])
      [] OTHER -> None

\* w, had it no arm for register 0: the write to r0 is refused like one to r16
w_rejects_r0(regs, reg, v) ==
    CASE reg \in 1..15 -> [ok |-> TRUE, regs |-> [regs EXCEPT ![reg] = v]]
      [] OTHER -> [ok |-> FALSE, regs |-> regs]

\* Registers::w: the Result and the registers after the call
w(regs, reg, v) ==
    CASE reg = 0 -> [ok |-> TRUE, regs |-> regs]
      [] reg \in 1..15 -> [ok |-> TRUE, regs |-> [regs EXCEPT ![reg] = v]]
      [] OTHER -> [ok |-> FALSE, regs |-> regs]

----------------------------------------------------------------------------
(* interpreter/vm.rs *)

\* inbounds_add, had it saturated at u8::MAX instead of wrapping
inbounds_add_saturating(a, b) ==
    IF a + b <= U8Max THEN <<a + b, FALSE>> ELSE <<U8Max, TRUE>>

\* a.checked_add(b), else a.wrapping_add(b): <<result, overflowed>>
inbounds_add(a, b) ==
    IF a + b <= U8Max THEN <<a + b, FALSE>> ELSE <<(a + b) % (U8Max + 1), TRUE>>

\* a.checked_sub(b), else a.wrapping_sub(b): <<result, overflowed>>
inbounds_sub(a, b) ==
    IF a - b >= 0 THEN <<a - b, FALSE>> ELSE <<(a - b) % (U8Max + 1), TRUE>>

\* !a on a u8
not_u8(a) == U8Max - a

read_err(regs, reg) ==
    LET v == r(regs, reg) IN
    IF v.tag = "Some" THEN [tag |-> "Ok", v |-> v.v]
    ELSE Err(InvalidRegister(reg))

write_err(regs, reg, val) ==
    LET res == w(regs, reg, val) IN
    IF res.ok THEN [tag |-> "Ok", regs |-> res.regs]
    ELSE Err(InvalidRegister(reg))

\* `state.pc + 1` on a u16: past u16::MAX a build with overflow checks panics
\* and a build without them wraps to 0
pc_plus_one(st) ==
    IF st.pc + 1 <= U16Max THEN {OkSome(st.pc + 1)}
    ELSE {Abort, OkSome((st.pc + 1) % (U16Max + 1))}

\* an outcome of interpret: what it returns and the state it leaves
Outcome(res, st) == [res |-> res, state |-> st]

\* the tail, had it set the flags before the write
write_back_flags_first(st, rd, res, zero, overflow) ==
    LET st1 == [st EXCEPT !.flags = Flags(zero, overflow)]
        wr == write_err(st1.regs, rd, res) IN
    IF wr.tag = "Err" THEN {Outcome(wr, st1)}
    ELSE LET st2 == [st1 EXCEPT !.regs = wr.regs]
         IN {Outcome(res2, st2) : res2 \in pc_plus_one(st2)}

\* the tail every register-writing arm shares:
\*   state.regs.write_err(rd, res)?; state.flags = (zero, overflow).into(); Ok(Some(state.pc + 1))
write_back(st, rd, res, zero, overflow) ==
    LET wr == write_err(st.regs, rd, res) IN
    IF wr.tag = "Err" THEN {Outcome(wr, st)}
    ELSE LET st2 == [st EXCEPT !.regs = wr.regs, !.flags = Flags(zero, overflow)]
         IN {Outcome(res2, st2) : res2 \in pc_plus_one(st2)}

IsReg(o) == o.k = "Reg"
IsImm8(o) == o.k = "Imm8"
IsImm12(o) == o.k = "Imm12"

\* the Halt arm, had it returned the next address as Nop does
interpret_Halt_continues(st) ==
    LET st2 == [st EXCEPT !.flags = Flags(TRUE, FALSE)]
    IN {Outcome(res2, st2) : res2 \in pc_plus_one(st2)}

\* the arm Instr::Halt
interpret_Halt(st) ==
    {Outcome(OkNone, [st EXCEPT !.flags = Flags(TRUE, FALSE)])}

\* the arm Instr::Addi {rd: Op::Reg(rd), rs1: Op::Reg(rs1), imm: Op::Imm8(imm)}
interpret_Addi(st, rd, rs1, imm) ==
    LET a == read_err(st.regs, rs1) IN
    IF a.tag = "Err" THEN {Outcome(a, st)}
    ELSE LET res == inbounds_add(a.v, imm)
         IN write_back(st, rd, res[1], res[1] = 0, res[2])

\* the Mv arm, had it set the zero flag from the value the destination holds after the write
interpret_Mv_zero_from_rd(st, rd, rs1) ==
    LET a == read_err(st.regs, rs1) IN
    IF a.tag = "Err" THEN {Outcome(a, st)}
    ELSE LET kept == IF rd = 0 THEN 0 ELSE a.v
         IN write_back(st, rd, a.v, kept = 0, FALSE)

\* the arm Instr::Mv {rd: Op::Reg(rd), rs1: Op::Reg(rs1)}
interpret_Mv(st, rd, rs1) ==
    LET a == read_err(st.regs, rs1) IN
    IF a.tag = "Err" THEN {Outcome(a, st)}
    ELSE write_back(st, rd, a.v, a.v = 0, FALSE)

\* the Nop arm, had it returned the PC it was fetched at
interpret_Nop_stays(st) ==
    {Outcome(OkSome(st.pc), [st EXCEPT !.flags = Flags(TRUE, FALSE)])}

\* the arm Instr::Nop
interpret_Nop(st) ==
    LET st2 == [st EXCEPT !.flags = Flags(TRUE, FALSE)]
    IN {Outcome(res2, st2) : res2 \in pc_plus_one(st2)}

\* the arm Instr::Add {rd: Op::Reg(rd), rs1: Op::Reg(rs1), rs2: Op::Reg(rs2)}
interpret_Add(st, rd, rs1, rs2) ==
    LET a == read_err(st.regs, rs1) IN
    IF a.tag = "Err" THEN {Outcome(a, st)}
    ELSE LET b == read_err(st.regs, rs2) IN
         IF b.tag = "Err" THEN {Outcome(b, st)}
         ELSE LET res == inbounds_add(a.v, b.v)
              IN write_back(st, rd, res[1], res[1] = 0, res[2])

\* the arm Instr::Sub {rd: Op::Reg(rd), rs1: Op::Reg(rs1), rs2: Op::Reg(rs2)}
interpret_Sub(st, rd, rs1, rs2) ==
    LET a == read_err(st.regs, rs1) IN
    IF a.tag = "Err" THEN {Outcome(a, st)}
    ELSE LET b == read_err(st.regs, rs2) IN
         IF b.tag = "Err" THEN {Outcome(b, st)}
         ELSE LET res == inbounds_sub(a.v, b.v)
              IN write_back(st, rd, res[1], res[1] = 0, res[2])

\* the arm Instr::Not {rd: Op::Reg(rd), rs1: Op::Reg(rs1)}
interpret_Not(st, rd, rs1) ==
    LET a == read_err(st.regs, rs1) IN
    IF a.tag = "Err" THEN {Outcome(a, st)}
    ELSE LET res == not_u8(a.v)
         IN write_back(st, rd, res, res = 0, FALSE)

\* the Jmp arm, had it taken the immediate as an offset from the PC
interpret_Jmp_relative(instr, st) ==
    IF IsImm12(instr.imm)
    THEN {Outcome(OkSome(st.pc + instr.imm.v), [st EXCEPT !.flags = Flags(TRUE, FALSE)])}
    ELSE {Outcome(Err(InvalidOperands(instr)), st)}

\* the Jmp arm, had it ignored the target and continued at the next instruction
interpret_Jmp_falls_through(instr, st) ==
    IF IsImm12(instr.imm)
    THEN {Outcome(res, [st EXCEPT !.flags = Flags(TRUE, FALSE)]) : res \in pc_plus_one(st)}
    ELSE {Outcome(Err(InvalidOperands(instr)), st)}

\* the arm Instr::Jmp {imm: target}, whatever the kind of target
interpret_Jmp(instr, st) ==
    IF IsImm12(instr.imm)
    THEN {Outcome(OkSome(instr.imm.v), [st EXCEPT !.flags = Flags(TRUE, FALSE)])}
    ELSE {Outcome(Err(InvalidOperands(instr)), st)}

\* the Bz arm, had it branched on the zero flag being clear
interpret_Bz_inverted(st, imm) ==
    IF st.flags.zero THEN {Outcome(res2, st) : res2 \in pc_plus_one(st)}
    ELSE {Outcome(OkSome(imm), st)}

\* the arm Instr::Bz {imm: Op::Imm12(imm)}
interpret_Bz(st, imm) ==
    IF st.flags.zero THEN {Outcome(OkSome(imm), st)}
    ELSE {Outcome(res2, st) : res2 \in pc_plus_one(st)}

\* the arm Instr::Bnz {imm: Op::Imm12(imm)}
interpret_Bnz(st, imm) ==
    IF st.flags.zero THEN {Outcome(res2, st) : res2 \in pc_plus_one(st)}
    ELSE {Outcome(OkSome(imm), st)}

\* interpret(instr, state): the set of outcomes the build can produce. The arms
\* are tried in the order of the match; the last one takes every other instruction.
interpret(instr, st) ==
    CASE instr.op = "Halt" -> interpret_Halt(st)
      [] instr.op = "Addi" /\ IsReg(instr.rd) /\ IsReg(instr.rs1) /\ IsImm8(instr.imm) ->
           interpret_Addi(st, instr.rd.v, instr.rs1.v, instr.imm.v)
      [] instr.op = "Mv" /\ IsReg(instr.rd) /\ IsReg(instr.rs1) ->
           interpret_Mv(st, instr.rd.v, instr.rs1.v)
      [] instr.op = "Nop" -> interpret_Nop(st)
      [] instr.op = "Add" /\ IsReg(instr.rd) /\ IsReg(instr.rs1) /\ IsReg(instr.rs2) ->
           interpret_Add(st, instr.rd.v, instr.rs1.v, instr.rs2.v)
      [] instr.op = "Sub" /\ IsReg(instr.rd) /\ IsReg(instr.rs1) /\ IsReg(instr.rs2) ->
           interpret_Sub(st, instr.rd.v, instr.rs1.v, instr.rs2.v)
      [] instr.op = "Not" /\ IsReg(instr.rd) /\ IsReg(instr.rs1) ->
           interpret_Not(st, instr.rd.v, instr.rs1.v)
      [] instr.op = "Jmp" -> interpret_Jmp(instr, st)
      [] instr.op = "Bz" /\ IsImm12(instr.imm) -> interpret_Bz(st, instr.imm.v)
      [] instr.op = "Bnz" /\ IsImm12(instr.imm) -> interpret_Bnz(st, instr.imm.v)
      [] OTHER -> {Outcome(Err(InvalidInstruction(instr)), st)}

----------------------------------------------------------------------------
(* The inputs *)

\* sample 8-bit values: the low and the high end of u8
Vals == (0..ValLow) \cup ((U8Max - ValHigh)..U8Max)

\* register indices an operand selects: the first ones, the last one, and the first nonexistent one
RegIdx == (0..MaxRegSel) \cup {NumRegs - 1, NumRegs}

LabelNames == {"start", "loop"}

\* branch targets: the first addresses and the largest 12-bit immediate
Targets == (0..MaxTarget) \cup {Imm12Max}

RegOperands == {Reg(n) : n \in RegIdx}
Imm8Operands == {Imm8(n) : n \in Vals}
Imm12Operands == {Imm12(n) : n \in Targets}
LabelOperands == {LabelOp(l) : l \in LabelNames}
Operands == RegOperands \cup Imm8Operands \cup Imm12Operands \cup LabelOperands

\* instructions whose operands have the kinds their mnemonic requires
WellShaped ==
    {Halt, Nop}
    \cup {[op |-> o, rd |-> d, rs1 |-> s] : o \in UnaryOps, d \in RegOperands, s \in RegOperands}
    \cup {[op |-> o, rd |-> d, rs1 |-> s, rs2 |-> t] :
            o \in BinaryOps, d \in RegOperands, s \in RegOperands, t \in RegOperands}
    \cup {[op |-> o, rd |-> d, rs1 |-> s, imm |-> i] :
            o \in ImmediateOps, d \in RegOperands, s \in RegOperands, i \in Imm8Operands}
    \cup {[op |-> o, imm |-> i] : o \in BranchOps, i \in Imm12Operands}

\* vm.rs, test_interpreter_errors: "Invalid operand"
TestInvalidOperand == Mv(Reg(0), Imm8(0))

\* instructions with an operand of another kind in one slot (the other slots hold r1 or 0)
Misshaped ==
    {TestInvalidOperand}
    \cup {[op |-> o, rd |-> x, rs1 |-> Reg(1)] : o \in UnaryOps, x \in Operands \ RegOperands}
    \cup {[op |-> o, rd |-> Reg(1), rs1 |-> x] : o \in UnaryOps, x \in Operands \ RegOperands}
    \cup {[op |-> o, rd |-> x, rs1 |-> Reg(1), rs2 |-> Reg(1)] :
            o \in BinaryOps, x \in Operands \ RegOperands}
    \cup {[op |-> o, rd |-> Reg(1), rs1 |-> x, rs2 |-> Reg(1)] :
            o \in BinaryOps, x \in Operands \ RegOperands}
    \cup {[op |-> o, rd |-> Reg(1), rs1 |-> Reg(1), rs2 |-> x] :
            o \in BinaryOps, x \in Operands \ RegOperands}
    \cup {[op |-> o, rd |-> x, rs1 |-> Reg(1), imm |-> Imm8(0)] :
            o \in ImmediateOps, x \in Operands \ RegOperands}
    \cup {[op |-> o, rd |-> Reg(1), rs1 |-> x, imm |-> Imm8(0)] :
            o \in ImmediateOps, x \in Operands \ RegOperands}
    \cup {[op |-> o, rd |-> Reg(1), rs1 |-> Reg(1), imm |-> x] :
            o \in ImmediateOps, x \in Operands \ Imm8Operands}
    \cup {[op |-> o, imm |-> x] : o \in BranchOps, x \in Operands \ Imm12Operands}

\* every instruction a caller hands to interpret
Instrs == WellShaped \cup Misshaped \cup {Label(l) : l \in LabelNames}

\* the machine states a caller hands to interpret
CallStates ==
    {[pc |-> p,
      regs |-> [i \in 1..(NumRegs - 1) |->
                  CASE i = 1 -> a [] i = NumRegs - 1 -> b [] OTHER -> 0],
      flags |-> Flags(z, o)] :
        p \in 0..MaxPC, a \in Vals, b \in Vals, z \in BOOLEAN, o \in BOOLEAN}

\* mod.rs, test_interpret_sample_program: 2 + 2
SampleProgram ==
    <<Addi(Reg(1), Reg(0), Imm8(2)), Addi(Reg(2), Reg(0), Imm8(2)),
      Add(Reg(3), Reg(1), Reg(2)), Halt>>

\* the wraparound program: Addi r1,r0,255; Addi r1,r1,1
WrapProgram == <<Addi(Reg(1), Reg(0), Imm8(255)), Addi(Reg(1), Reg(1), Imm8(1))>>

\* the instructions of the programs enumerated exhaustively: control flow, one
\* flag-changing instruction and one faulting instruction (vm.rs, test_interpreter_errors)
Alphabet ==
    {Halt, Nop, Addi(Reg(1), Reg(0), Imm8(2)), Addi(Reg(0), Reg(NumRegs), Imm8(32))}
    \cup {[op |-> o, imm |-> i] : o \in BranchOps, i \in Imm12Operands}

SeqsUpTo(S, n) == UNION {[1..k -> S] : k \in 0..n}

Programs == SeqsUpTo(Alphabet, MaxPrgLen) \cup {SampleProgram, WrapProgram}

\* the states a caller passes as interpret_program's Some(initial_state)
RunStates == {[StateDefault EXCEPT !.pc = p] : p \in 0..MaxPC}

----------------------------------------------------------------------------
(* The state machine *)

NoStep == [tag |-> "NoStep"]
\* the compiler, resp. the encoder, is not in use
NoComp == [stage |-> "none"]
NoEnc == [stage |-> "none"]
Step(i, pre, out) == [tag |-> "Step", instr |-> i, pre |-> pre, post |-> out.state, res |-> out.res]

\* initial_state.unwrap_or_default()
unwrap_or_default(o) == IF o.tag = "Some" THEN o.v ELSE StateDefault

\* interpret_program(prg, initial_state) is entered
InitRun ==
    /\ prg \in Programs
    /\ initial_state \in {None} \cup {Some(s) : s \in RunStates}
    /\ state = unwrap_or_default(initial_state)
    /\ ctl = "loop"
    /\ status = None
    /\ last = NoStep
    /\ comp = NoComp
    /\ enc = NoEnc

\* a caller holds a State and is about to call interpret on it
InitCall ==
    /\ prg = <<>>
    /\ initial_state = None
    /\ state \in CallStates
    /\ ctl = "caller"
    /\ status = None
    /\ last = NoStep
    /\ comp = NoComp
    /\ enc = NoEnc

Init == InitRun \/ InitCall

\* get, had it refused the last index too
get_short(p, idx) == IF idx + 1 < Len(p) THEN Some(p[idx + 1]) ELSE None

\* get, had it clamped an index past the end to the last instruction
get_clamped(p, idx) ==
    IF Len(p) = 0 THEN None
    ELSE Some(p[IF idx < Len(p) THEN idx + 1 ELSE Len(p)])

\* prg.get(state.pc as usize)
get(p, idx) == IF idx < Len(p) THEN Some(p[idx + 1]) ELSE None

\* one iteration of interpret_program's loop: fetch, interpret, set the PC or break
LoopStep ==
    /\ ctl = "loop"
    /\ UNCHANGED <<comp, enc>>
    /\ LET fetched == get(prg, state.pc) IN
       IF fetched.tag = "None"
       THEN /\ status' = Some(PCOutOfBounds(state.pc))
            /\ ctl' = "returned"
            /\ UNCHANGED <<prg, state, last, initial_state>>
       ELSE \E out \in interpret(fetched.v, state) :
              /\ last' = Step(fetched.v, state, out)
              /\ UNCHANGED <<prg, initial_state>>
              /\ CASE out.res.tag = "OkSome" ->
                        /\ state' = [out.state EXCEPT !.pc = out.res.pc]
                        /\ UNCHANGED <<ctl, status>>
                   [] out.res.tag = "OkNone" ->
                        /\ state' = out.state
                        /\ ctl' = "returned"
                        /\ status' = None
                   [] out.res.tag = "Err" ->
                        /\ state' = out.state
                        /\ ctl' = "returned"
                        /\ status' = Some(out.res.err)
                   [] OTHER ->
                        /\ state' = out.state
                        /\ ctl' = "aborted"
                        /\ status' = status

\* a direct call interpret(&instr, &mut state): the caller's State is mutated, its PC is not set
InterpretCall ==
    /\ ctl = "caller"
    /\ \E i \in Instrs : \E out \in interpret(i, state) :
         /\ last' = Step(i, state, out)
         /\ state' = out.state
         /\ ctl' = IF out.res.tag = "Abort" THEN "aborted" ELSE "called"
    /\ UNCHANGED <<prg, status, initial_state, comp, enc>>

Next == LoopStep \/ InterpretCall

Spec == Init /\ [][Next]_vars

----------------------------------------------------------------------------
(* compiler/symbol.rs: the two symbol passes *)

(* SymbolError *)
DuplicateSymbol(s) == [e |-> "DuplicateSymbol", name |-> s]
NoSuchSymbol(s) == [e |-> "NoSuchSymbol", name |-> s]
UnstrippedSymbol(s) == [e |-> "UnstrippedSymbol", name |-> s]

\* Ok(x) of a Result
Ok(x) == [tag |-> "Ok", v |-> x]

(* SymbolTable = HashMap<String, u16>: a function from the keys to their addresses *)
HashMap_new == <<>>
contains_key(table, key) == key \in DOMAIN table
insert(table, key, value) ==
    [n \in DOMAIN table \cup {key} |-> IF n = key THEN value ELSE table[n]]

\* the variables of strip_symbols's loop: out, symbols, pc
StripAcc(out, symbols, pc) == [out |-> out, symbols |-> symbols, pc |-> pc]

\* the Label arm, had it recorded a declared name again instead of failing
strip_Label_overwrites(acc, label) ==
    {Ok([acc EXCEPT !.symbols = insert(@, label, acc.pc)])}

\* the Label arm, had a label taken an address of its own
strip_Label_advances(acc, label) ==
    IF contains_key(acc.symbols, label) THEN {Err(DuplicateSymbol(label))}
    ELSE {Ok([acc EXCEPT !.symbols = insert(@, label, acc.pc), !.pc = @ + 1])}

\* the arm Instr::Label(label) of strip_symbols
strip_Label(acc, label) ==
    IF contains_key(acc.symbols, label) THEN {Err(DuplicateSymbol(label))}
    ELSE {Ok([acc EXCEPT !.symbols = insert(@, label, acc.pc)])}

\* the arm `_`, had it put the instruction in front of the output
strip_other_prepends(acc, instr) ==
    {Ok([acc EXCEPT !.out = <<instr>> \o @, !.pc = @ + 1])}

\* the arm `_` of strip_symbols: out.push(instr.clone()); pc += 1 on a u16,
\* which at 65535 panics in a checked build and wraps to 0 in an unchecked one
strip_other(acc, instr) ==
    IF acc.pc < U16Max
    THEN {Ok([acc EXCEPT !.out = Append(@, instr), !.pc = @ + 1])}
    ELSE {Abort, Ok([acc EXCEPT !.out = Append(@, instr), !.pc = 0])}

\* one iteration of strip_symbols's loop: the match on the i-th instruction
strip_iter(p, i, acc) ==
    IF p[i].op = "Label" THEN strip_Label(acc, p[i].name) ELSE strip_other(acc, p[i])

\* the iterations i..j of the loop from the variables acc, the first failure
\* ending it: those of the first half of i..j, then those of the second
RECURSIVE strip_loop(_, _, _, _)
strip_loop(p, i, j, acc) ==
    IF i > j THEN {Ok(acc)}
    ELSE IF i = j THEN strip_iter(p, i, acc)
    ELSE UNION {IF a.tag = "Ok" THEN strip_loop(p, (i + j) \div 2 + 1, j, a.v) ELSE {a} :
                  a \in strip_loop(p, i, (i + j) \div 2, acc)}

\* Ok((out, symbols)) after the loop
strip_return(a) == IF a.tag = "Ok" THEN Ok(<<a.v.out, a.v.symbols>>) ELSE a

\* strip_symbols(prg): the set of results the builds can produce, each
\* Ok(<<out, symbols>>), Err(SymbolError) or Abort
strip_symbols(p) ==
    {strip_return(a) : a \in strip_loop(p, 1, Len(p), StripAcc(<<>>, HashMap_new, 0))}

\* lookup_address, had it returned the address after the recorded one
lookup_address_next(symbol, table) ==
    IF contains_key(table, symbol) THEN Ok(table[symbol] + 1)
    ELSE Err(NoSuchSymbol(symbol))

\* lookup_address(symbol, table)
lookup_address(symbol, table) ==
    IF contains_key(table, symbol) THEN Ok(table[symbol])
    ELSE Err(NoSuchSymbol(symbol))

\* the Label arm of replace_symbols, had it dropped the pseudo-instruction silently
replace_Label_skips(out, s) == Ok(out)

\* the arm Instr::Label(s) of replace_symbols
replace_Label(out, s) == Err(UnstrippedSymbol(s))

\* the Jmp arm, had it pushed the address after the recorded one
replace_Jmp_next(out, symbol, symbols) ==
    IF contains_key(symbols, symbol) THEN Ok(Append(out, Jmp(Imm12(symbols[symbol] + 1))))
    ELSE Err(NoSuchSymbol(symbol))

\* the arm Instr::Jmp {imm: Op::Label(symbol)}
replace_Jmp(out, symbol, symbols) ==
    LET addr == lookup_address(symbol, symbols) IN
    IF addr.tag = "Err" THEN addr ELSE Ok(Append(out, Jmp(Imm12(addr.v))))

\* the arm Instr::Bnz {imm: Op::Label(symbol)}
replace_Bnz(out, symbol, symbols) ==
    LET addr == lookup_address(symbol, symbols) IN
    IF addr.tag = "Err" THEN addr ELSE Ok(Append(out, Bnz(Imm12(addr.v))))

\* the Bz arm, had it passed on a reference it cannot resolve
replace_Bz_keeps_unresolved(out, symbol, symbols) ==
    LET addr == lookup_address(symbol, symbols) IN
    IF addr.tag = "Err" THEN Ok(Append(out, Bz(LabelOp(symbol))))
    ELSE Ok(Append(out, Bz(Imm12(addr.v))))

\* the arm Instr::Bz {imm: Op::Label(symbol)}
replace_Bz(out, symbol, symbols) ==
    LET addr == lookup_address(symbol, symbols) IN
    IF addr.tag = "Err" THEN addr ELSE Ok(Append(out, Bz(Imm12(addr.v))))

\* the arm `_` of replace_symbols
replace_other(out, instr) == Ok(Append(out, instr))

\* one iteration of replace_symbols's loop: the match on the i-th instruction
replace_iter(p, i, out, symbols) ==
    CASE p[i].op = "Label" -> replace_Label(out, p[i].name)
      [] p[i].op = "Jmp" /\ p[i].imm.k = "Label" -> replace_Jmp(out, p[i].imm.name, symbols)
      [] p[i].op = "Bnz" /\ p[i].imm.k = "Label" -> replace_Bnz(out, p[i].imm.name, symbols)
      [] p[i].op = "Bz" /\ p[i].imm.k = "Label" -> replace_Bz(out, p[i].imm.name, symbols)
      [] OTHER -> replace_other(out, p[i])

\* the iterations i..j of the loop from the output out, the first failure
\* ending it: those of the first half of i..j, then those of the second
RECURSIVE replace_loop(_, _, _, _, _)
replace_rest(p, i, j, first, symbols) ==
    IF first.tag = "Ok" THEN replace_loop(p, i, j, first.v, symbols) ELSE first
replace_loop(p, i, j, out, symbols) ==
    IF i > j THEN Ok(out)
    ELSE IF i = j THEN replace_iter(p, i, out, symbols)
    ELSE replace_rest(p, (i + j) \div 2 + 1, j,
                      replace_loop(p, i, (i + j) \div 2, out, symbols), symbols)

\* replace_symbols(prg, symbols): Ok(out) or Err(SymbolError)
replace_symbols(p, symbols) == replace_loop(p, 1, Len(p), <<>>, symbols)

(* The symbol passes as a state machine: a parsed Program is stripped and
   then resolved, as compile_program does, or handed to replace_symbols
   directly with a table of the caller's. *)

\* programs of up to MaxSymLen instructions over SymAlphabet
MaxSymLen == 4

SymAlphabet ==
    {Label(l) : l \in LabelNames}
    \cup {Halt, Jmp(Imm12(1))}
    \cup {Jmp(LabelOp(l)) : l \in LabelNames}
    \cup {Bz(LabelOp(l)) : l \in LabelNames}
    \cup {Bnz(LabelOp(l)) : l \in LabelNames}

SymPrograms == SeqsUpTo(SymAlphabet, MaxSymLen)

\* the tables a caller passes to replace_symbols: each subset of the names,
\* "start" at address 0 as in test_replace_symbols, every other name at 1
SymTables ==
    {[l \in S |-> IF l = "start" THEN 0 ELSE 1] : S \in SUBSET LabelNames}

\* the interpreter is not in use
interp == <<prg, state, ctl, status, last, initial_state>>
Idle ==
    /\ prg = <<>>
    /\ initial_state = None
    /\ state = StateDefault
    /\ ctl = "idle"
    /\ status = None
    /\ last = NoStep

SymInit ==
    /\ Idle
    /\ enc = NoEnc
    /\ comp \in {[stage |-> "parsed", input |-> p] : p \in SymPrograms}

\* compile_program's call strip_symbols(&prg)
StripSymbols ==
    /\ comp.stage = "parsed"
    /\ \E res \in strip_symbols(comp.input) :
         comp' = [stage |-> "stripped", input |-> comp.input, stripped |-> res]
    /\ UNCHANGED <<interp, enc>>

\* compile_program's call replace_symbols(&prg, &symbols) on what strip_symbols returned
ReplaceSymbols ==
    /\ comp.stage = "stripped"
    /\ comp.stripped.tag = "Ok"
    /\ comp' = [stage |-> "resolved", input |-> comp.input, stripped |-> comp.stripped,
                replaced |-> replace_symbols(comp.stripped.v[1], comp.stripped.v[2])]
    /\ UNCHANGED <<interp, enc>>

\* a direct call replace_symbols(&prg, &symbols) with a table of the caller's
ReplaceCall ==
    /\ comp.stage = "parsed"
    /\ \E t \in SymTables :
         comp' = [stage |-> "replaced", input |-> comp.input, symbols |-> t,
                  replaced |-> replace_symbols(comp.input, t)]
    /\ UNCHANGED <<interp, enc>>

SymNext == StripSymbols \/ ReplaceSymbols \/ ReplaceCall

SymSpec == SymInit /\ [][SymNext]_vars

----------------------------------------------------------------------------
(* Vocabulary of the properties *)

Stepped == last.tag = "Step"

\* the register-typed operand slots of each mnemonic
RegSlots(i) ==
    CASE i.op \in UnaryOps -> {i.rd, i.rs1}
      [] i.op \in BinaryOps -> {i.rd, i.rs1, i.rs2}
      [] i.op \in ImmediateOps -> {i.rd, i.rs1}
      [] OTHER -> {}

\* the source registers of a well-shaped instruction
SrcSlots(i) ==
    CASE i.op \in UnaryOps -> {i.rs1}
      [] i.op \in BinaryOps -> {i.rs1, i.rs2}
      [] i.op \in ImmediateOps -> {i.rs1}
      [] OTHER -> {}

\* the operands have the kinds the mnemonic requires (the data model of ast.rs)
Shaped(i) ==
    CASE i.op \in UnaryOps -> IsReg(i.rd) /\ IsReg(i.rs1)
      [] i.op \in BinaryOps -> IsReg(i.rd) /\ IsReg(i.rs1) /\ IsReg(i.rs2)
      [] i.op \in ImmediateOps -> IsReg(i.rd) /\ IsReg(i.rs1) /\ IsImm8(i.imm)
      [] i.op \in BranchOps -> IsImm12(i.imm)
      [] OTHER -> i.op \in {"Halt", "Nop"}

\* well-shaped, and every register operand names one of r0..r15
ValidRegs(i) == Shaped(i) /\ \A o \in RegSlots(i) : o.v < NumRegs

\* the value of register n as Registers::r reads it (n in 0..15)
RegVal(regs, n) == r(regs, n).v

\* all sixteen registers read the same in both register files
SameRegisters(regs1, regs2) == \A n \in 0..(NumRegs - 1) : r(regs1, n) = r(regs2, n)

\* the register-writing mnemonics interpret has an arm for
Executed == {"Mv", "Not", "Add", "Sub", "Addi"}

----------------------------------------------------------------------------
(* C1: register 0 is hardwired to zero. In every reachable state reading r0
   yields 0; every instruction whose destination is r0 leaves all of r0..r15
   as they were; and the discarded write is no fault: an instruction interpret
   executes (Mv, Not, Add, Sub, Addi) with existing source registers and
   destination r0 succeeds. *)
C1_ZeroRegister ==
    /\ r(state.regs, 0) = Some(0)
    /\ (Stepped /\ last.instr.op \in UnaryOps \cup BinaryOps \cup ImmediateOps
          /\ last.instr.rd = Reg(0))
       => /\ SameRegisters(last.pre.regs, last.post.regs)
          /\ r(last.post.regs, 0) = Some(0)
          /\ last.res # Err(InvalidRegister(0))
          /\ (last.instr.op \in Executed /\ Shaped(last.instr)
                /\ \A o \in SrcSlots(last.instr) : o.v < NumRegs)
             => last.res.tag = "OkSome"

\* Addi r0, r1, 1 with r1 = 1 was executed: the sum 2 was written to r0 and discarded
C1_Witness ==
    /\ Stepped
    /\ last.instr = Addi(Reg(0), Reg(1), Imm8(1))
    /\ RegVal(last.pre.regs, 1) = 1
    /\ last.res.tag = "OkSome"

(* C2: Add, Addi and Sub with existing registers: the destination receives
   (a + b) mod 256, resp. (a - b) mod 256 (r0 stays 0); overflow is set exactly
   when a + b > 255, resp. a < b; zero exactly when the result is 0; the next PC
   is PC + 1. And Addi r1,r0,255; Addi r1,r1,1 from the default state leaves
   r1 = 0 with the overflow flag set. *)
C2_AddSub ==
    /\ (Stepped /\ last.instr.op \in {"Add", "Addi", "Sub"} /\ ValidRegs(last.instr))
       => LET i == last.instr
              a == RegVal(last.pre.regs, i.rs1.v)
              b == IF i.op = "Addi" THEN i.imm.v ELSE RegVal(last.pre.regs, i.rs2.v)
              exact == IF i.op = "Sub" THEN a - b ELSE a + b
              result == exact % 256
          IN /\ RegVal(last.post.regs, i.rd.v) = (IF i.rd.v = 0 THEN 0 ELSE result)
             /\ \A n \in 1..15 : n # i.rd.v => last.post.regs[n] = last.pre.regs[n]
             /\ last.post.flags.overflow = (IF i.op = "Sub" THEN a < b ELSE a + b > 255)
             /\ last.post.flags.zero = (result = 0)
             /\ last.res = OkSome(last.pre.pc + 1)
    /\ (prg = WrapProgram /\ initial_state = None /\ state.pc = 2)
       => /\ RegVal(state.regs, 1) = 0
          /\ state.flags.overflow

\* the wraparound program has run both instructions: 255 + 1 wrapped to 0
C2_Witness ==
    /\ prg = WrapProgram /\ initial_state = None /\ state.pc = 2
    /\ Stepped
    /\ last.instr = Addi(Reg(1), Reg(1), Imm8(1))
    /\ RegVal(last.pre.regs, 1) = 255
    /\ last.post.flags = Flags(TRUE, TRUE)

(* C3: interpret_program runs the sample program Addi r1,r0,2; Addi r2,r0,2;
   Add r3,r1,r2; Halt from the default state one instruction at a time and
   returns on Halt with status None and r3 = 4. *)
C3_SampleProgram ==
    (prg = SampleProgram /\ initial_state = None)
    => /\ ctl \in {"loop", "returned"}
       /\ ctl = "loop" => state.pc \in 0..3 /\ status = None
       /\ Stepped => last.pre.pc + 1 \in {state.pc, 4} /\ last.instr = prg[last.pre.pc + 1]
       /\ ctl = "returned"
          => /\ status = None
             /\ last.instr = Halt
             /\ state.pc = 3
             /\ r(state.regs, 3) = Some(4)

\* the sample program has returned
C3_Witness ==
    /\ prg = SampleProgram /\ initial_state = None
    /\ ctl = "returned"
    /\ RegVal(state.regs, 1) = 2 /\ RegVal(state.regs, 2) = 2

(* C4: whenever the PC addresses no instruction of the Program (PC >= its
   length), also right after a Jmp/Bz/Bnz to a target outside the Program, the
   next iteration of the loop returns the fault PCOutOfBounds(PC); it executes
   no instruction and leaves registers, flags and PC as they were. *)
C4_PCOutOfBounds ==
    [][(ctl = "loop" /\ state.pc >= Len(prg))
       => /\ ctl' = "returned"
          /\ status' = Some(PCOutOfBounds(state.pc))
          /\ state' = state
          /\ last' = last]_vars

\* a taken Bnz to 4095 left the Program and the next fetch faulted, r1 still holding 2
C4_Witness ==
    /\ ctl = "returned"
    /\ status = Some(PCOutOfBounds(Imm12Max))
    /\ Stepped
    /\ last.instr = Bnz(Imm12(Imm12Max))
    /\ state.regs = last.post.regs /\ state.flags = last.post.flags
    /\ RegVal(state.regs, 1) = 2

(* C5: every well-shaped instruction with register operands (Mv, Not, Add, Sub,
   And, Or, Xor, Addi, Andi, Ori, Xori) that names a register of index 16 or
   more in any register slot is answered with the InvalidRegister fault. *)
C5_InvalidRegister ==
    (Stepped /\ Shaped(last.instr) /\ \E o \in RegSlots(last.instr) : o.v >= NumRegs)
    => /\ last.res.tag = "Err"
       /\ last.res.err.e = "InvalidRegister"

(* C6: every instruction whose operand kinds do not match the shape of its
   mnemonic is answered with the InvalidOperands fault naming that instruction. *)
C6_InvalidOperands ==
    (Stepped /\ last.instr \in Misshaped)
    => last.res = Err(InvalidOperands(last.instr))

\* bit k of x
Bit(x, k) == (x \div (2 ^ k)) % 2

\* the bitwise combination of two 8-bit values, f giving the combination of two bits
RECURSIVE Bitwise(_, _, _, _)
Bitwise(f, a, b, k) ==
    IF k = 8 THEN 0
    ELSE (2 ^ k) * f[Bit(a, k)][Bit(b, k)] + Bitwise(f, a, b, k + 1)

BitAnd == [x \in 0..1 |-> [y \in 0..1 |-> x * y]]
BitOr == [x \in 0..1 |-> [y \in 0..1 |-> IF x + y > 0 THEN 1 ELSE 0]]
BitXor == [x \in 0..1 |-> [y \in 0..1 |-> (x + y) % 2]]

(* C7: And, Or, Xor and Andi, Ori, Xori with valid operands succeed: the
   destination receives the bitwise AND/OR/XOR of the two inputs (r0 stays 0),
   zero is set exactly when that result is 0, overflow is false, and the next PC
   is PC + 1. *)
C7_Bitwise ==
    (Stepped /\ last.instr.op \in {"And", "Or", "Xor", "Andi", "Ori", "Xori"}
       /\ ValidRegs(last.instr))
    => LET i == last.instr
           a == RegVal(last.pre.regs, i.rs1.v)
           b == IF i.op \in ImmediateOps THEN i.imm.v ELSE RegVal(last.pre.regs, i.rs2.v)
           f == CASE i.op \in {"And", "Andi"} -> BitAnd
                  [] i.op \in {"Or", "Ori"} -> BitOr
                  [] OTHER -> BitXor
           result == Bitwise(f, a, b, 0)
       IN /\ last.res = OkSome(last.pre.pc + 1)
          /\ RegVal(last.post.regs, i.rd.v) = (IF i.rd.v = 0 THEN 0 ELSE result)
          /\ last.post.flags = Flags(result = 0, FALSE)

(* C8: Bz{Imm12(t)} continues at t when the zero flag is set and at PC + 1
   otherwise; Bnz{Imm12(t)} at PC + 1 when it is set and at t otherwise; both
   leave the flags and every register as they were. *)
C8_Branches ==
    (Stepped /\ last.instr.op \in {"Bz", "Bnz"} /\ IsImm12(last.instr.imm))
    => LET t == last.instr.imm.v
           taken == IF last.instr.op = "Bz" THEN last.pre.flags.zero
                    ELSE ~last.pre.flags.zero
       IN /\ last.res = OkSome(IF taken THEN t ELSE last.pre.pc + 1)
          /\ last.post.flags = last.pre.flags
          /\ last.post.regs = last.pre.regs

\* a Bz at PC 1 with flags {zero: false, overflow: true} fell through to 2, the flags kept
C8_Witness ==
    /\ Stepped
    /\ last.instr = Bz(Imm12(Imm12Max))
    /\ last.pre.pc = 1
    /\ last.pre.flags = Flags(FALSE, TRUE)
    /\ last.res = OkSome(2)
    /\ last.post.flags = Flags(FALSE, TRUE)
    /\ RegVal(last.post.regs, 1) = 255

(* C9: Jmp{Imm12(t)} sets the flags to {zero: true, overflow: false}, leaves
   every register as it was, and continues at exactly t, whatever the PC. *)
C9_Jmp ==
    (Stepped /\ last.instr.op = "Jmp" /\ IsImm12(last.instr.imm))
    => /\ last.post.flags = Flags(TRUE, FALSE)
       /\ last.post.regs = last.pre.regs
       /\ last.res = OkSome(last.instr.imm.v)

\* a Jmp 1 at PC 1 with flags {zero: false, overflow: true} continued at 1, the flags reset
C9_Witness ==
    /\ Stepped
    /\ last.instr = Jmp(Imm12(1))
    /\ last.pre.pc = 1
    /\ last.pre.flags = Flags(FALSE, TRUE)
    /\ RegVal(last.pre.regs, 1) = 255
    /\ last.res = OkSome(1)

(* C10: Halt and Nop reset the flags to {zero: true, overflow: false} and
   change no register; Nop continues at PC + 1; Halt yields no next PC, and
   interpret_program then returns with no fault, the final PC still the address
   of the Halt. *)
C10_HaltNop ==
    /\ (Stepped /\ last.instr.op \in {"Halt", "Nop"})
       => /\ last.post.flags = Flags(TRUE, FALSE)
          /\ last.post.regs = last.pre.regs
          /\ last.post.pc = last.pre.pc
          /\ last.res = (IF last.instr.op = "Nop" THEN OkSome(last.pre.pc + 1) ELSE OkNone)
    /\ (Stepped /\ last.instr.op = "Halt" /\ ctl \notin {"caller", "called"})
       => /\ ctl = "returned"
          /\ status = None
          /\ state = last.post
          /\ state.pc = last.pre.pc
          /\ get(prg, state.pc) = Some(Halt)

\* interpret_program returned on a Halt at address 2 that reset the flags Addi had set
C10_Witness ==
    /\ ctl = "returned"
    /\ Stepped
    /\ last.instr = Halt
    /\ last.pre.flags = Flags(FALSE, FALSE)
    /\ state.pc = 2
    /\ state.flags = Flags(TRUE, FALSE)
    /\ RegVal(state.regs, 1) = 2

(* C11: Mv and Not with existing registers. Mv copies the value read from rs1
   into rd and sets the zero flag exactly when that source value is 0, also
   when rd is r0 and the write is discarded; Not stores the 8-bit complement of
   rs1 in rd and sets zero exactly when the complement is 0. Both clear the
   overflow flag, change no other register, and continue at PC + 1. *)
C11_MvNot ==
    (Stepped /\ last.instr.op \in {"Mv", "Not"} /\ ValidRegs(last.instr))
    => LET i == last.instr
           src == RegVal(last.pre.regs, i.rs1.v)
           val == IF i.op = "Mv" THEN src ELSE Bitwise(BitXor, src, U8Max, 0)
       IN /\ \A n \in 0..(NumRegs - 1) :
               RegVal(last.post.regs, n) =
                 (IF n = i.rd.v /\ n # 0 THEN val ELSE RegVal(last.pre.regs, n))
          /\ last.post.flags = Flags(val = 0, FALSE)
          /\ last.post.pc = last.pre.pc
          /\ last.res = OkSome(last.pre.pc + 1)

\* Mv r0, r1 with r1 = 255 was executed with the zero flag set before: the write
\* was discarded and the zero flag is now clear
C11_Witness ==
    /\ Stepped
    /\ last.instr = Mv(Reg(0), Reg(1))
    /\ RegVal(last.pre.regs, 1) = U8Max
    /\ last.pre.flags.zero
    /\ RegVal(last.post.regs, 0) = 0
    /\ ~last.post.flags.zero

\* a program interpret_program cannot leave: no Halt, no faulting instruction,
\* every branch target inside the program, and an unconditional jump at the end
Perpetual(p) ==
    /\ Len(p) > 0
    /\ p[Len(p)].op = "Jmp"
    /\ \A k \in 1..Len(p) :
         /\ p[k].op \in Executed \cup BranchOps \cup {"Nop"}
         /\ ValidRegs(p[k])
         /\ p[k].op \in BranchOps => p[k].imm.v < Len(p)

\* interpret_program is running (or has run) a perpetual program from a PC inside it
PerpetualRun ==
    /\ ctl \notin {"caller", "called"}
    /\ Perpetual(prg)
    /\ unwrap_or_default(initial_state).pc < Len(prg)

(* C12: interpret_program leaves its loop only on a Halt (no fault reported),
   on a fault returned by a step (that fault reported), or on a PC that
   addresses no instruction (PCOutOfBounds reported); there is no step limit:
   on a program with an unconditional backward jump and no reachable Halt, such
   as the one-instruction program Jmp 0, the loop is never left, the next
   iteration is always possible, and no fault is ever reported. *)
C12_NoStepLimit ==
    /\ [][(ctl = "loop" /\ ctl' # "loop")
          => \/ /\ get(prg, state.pc) = None
                /\ ctl' = "returned"
                /\ status' = Some(PCOutOfBounds(state.pc))
             \/ /\ get(prg, state.pc) = Some(Halt)
                /\ last'.res = OkNone
                /\ ctl' = "returned"
                /\ status' = None
             \/ /\ get(prg, state.pc) = Some(last'.instr)
                /\ last'.res.tag = "Err"
                /\ ctl' = "returned"
                /\ status' = Some(last'.res.err)]_vars
    /\ [](PerpetualRun
          => /\ ctl = "loop"
             /\ status = None
             /\ get(prg, state.pc) # None
             /\ ENABLED LoopStep)

\* the program Jmp 0 has executed its jump from address 0 and is at address 0 again,
\* still in the loop
C12_Witness ==
    /\ prg = <<Jmp(Imm12(0))>>
    /\ ctl = "loop"
    /\ Stepped
    /\ last.instr = Jmp(Imm12(0))
    /\ last.pre.pc = 0
    /\ state.pc = 0
    /\ status = None

----------------------------------------------------------------------------
(* Vocabulary of the symbol passes' properties *)

\* the least element of a nonempty set of numbers
Min(S) == CHOOSE x \in S : \A y \in S : x <= y

\* the indices of p holding a Label pseudo-instruction, and those declaring l
LabelIdx(p) == {k \in 1..Len(p) : p[k].op = "Label"}
Declarations(p, l) == {k \in LabelIdx(p) : p[k].name = l}
Declared(p) == {p[k].name : k \in LabelIdx(p)}

\* a Jmp, Bz or Bnz whose operand is a Label; the indices of p holding one
LabelRef(i) == i.op \in BranchOps /\ i.imm.k = "Label"
RefIdx(p) == {k \in 1..Len(p) : LabelRef(p[k])}

\* the instructions of p that are no Label, in order; how many precede index k
Real(p) == SelectSeq(p, LAMBDA i : i.op # "Label")
RealBefore(p, k) == Cardinality({j \in 1..(k - 1) : p[j].op # "Label"})

\* the program and the table the latest call of replace_symbols was given
ReplaceInput == IF comp.stage = "resolved" THEN comp.stripped.v[1] ELSE comp.input
ReplaceTable == IF comp.stage = "resolved" THEN comp.stripped.v[2] ELSE comp.symbols
Replaced == comp.stage \in {"resolved", "replaced"}

\* the indices of p holding a branch whose label is no key of table t
Unresolved(p, t) == {k \in RefIdx(p) : p[k].imm.name \notin DOMAIN t}

(* C13: on a Program without Label pseudo-instruction strip_symbols succeeds
   in every build and returns the input Program, instruction for instruction,
   with an empty SymbolTable. *)
C13_StripNoLabels ==
    (comp.stage = "stripped" /\ LabelIdx(comp.input) = {})
    => /\ strip_symbols(comp.input) = {comp.stripped}
       /\ comp.stripped.tag = "Ok"
       /\ Len(comp.stripped.v[1]) = Len(comp.input)
       /\ \A k \in 1..Len(comp.input) : comp.stripped.v[1][k] = comp.input[k]
       /\ DOMAIN comp.stripped.v[2] = {}

\* the label-free program Jmp start; Halt; Bz loop was stripped
C13_Witness ==
    /\ comp.stage = "stripped"
    /\ comp.input = <<Jmp(LabelOp("start")), Halt, Bz(LabelOp("loop"))>>
    /\ comp.stripped.tag = "Ok"
    /\ comp.stripped.v[1] = comp.input

\* no label is declared twice and every label a branch refers to is declared
WellLabelled(p) ==
    /\ \A l \in Declared(p) : Cardinality(Declarations(p, l)) = 1
    /\ \A k \in RefIdx(p) : p[k].imm.name \in Declared(p)

(* C14: on a Program in which every label a Jmp, Bz or Bnz refers to is
   declared exactly once and no label is declared twice, strip_symbols
   succeeds and replace_symbols on its result succeeds; the resolved Program
   has one instruction per non-Label instruction of the input, none of them a
   Label pseudo-instruction, none with a Label operand: a branch that named a
   label is the same branch on Imm12(the address recorded for that label) and
   every other instruction is as it was. *)
C14_Resolve ==
    (comp.stage \in {"stripped", "resolved"} /\ WellLabelled(comp.input))
    => /\ comp.stripped.tag = "Ok"
       /\ ENABLED ReplaceSymbols \/ comp.stage = "resolved"
       /\ comp.stage = "resolved"
          => /\ comp.replaced.tag = "Ok"
             /\ LET src == Real(comp.input)
                    table == comp.stripped.v[2]
                    out == comp.replaced.v
                IN /\ Len(out) = Len(src)
                   /\ \A k \in 1..Len(out) :
                        /\ out[k].op # "Label"
                        /\ out[k].op \in BranchOps => out[k].imm.k = "Imm12"
                        /\ out[k] = IF LabelRef(src[k])
                                    THEN [op |-> src[k].op,
                                          imm |-> Imm12(table[src[k].imm.name])]
                                    ELSE src[k]

\* Halt; loop: Jmp loop; Bz loop was resolved to Halt; Jmp 1; Bz 1
C14_Witness ==
    /\ comp.stage = "resolved"
    /\ comp.input = <<Halt, Label("loop"), Jmp(LabelOp("loop")), Bz(LabelOp("loop"))>>
    /\ comp.replaced = Ok(<<Halt, Jmp(Imm12(1)), Bz(Imm12(1))>>)

\* the indices of p holding a Label whose name an earlier Label declares
Redeclared(p) == {k \in LabelIdx(p) : \E j \in LabelIdx(p) : j < k /\ p[j].name = p[k].name}

(* C15: on a Program with two Label pseudo-instructions of the same name, at
   whatever positions, strip_symbols fails in every build with DuplicateSymbol
   carrying the name declared twice (with several such names: the one whose
   second declaration comes first); the result holds no Program and no
   SymbolTable, and compile_program does not go on to replace_symbols. *)
C15_DuplicateSymbol ==
    (comp.stage = "stripped" /\ Redeclared(comp.input) # {})
    => /\ strip_symbols(comp.input) = {comp.stripped}
       /\ comp.stripped.tag = "Err"
       /\ comp.stripped.err.e = "DuplicateSymbol"
       /\ Cardinality(Declarations(comp.input, comp.stripped.err.name)) >= 2
       /\ comp.stripped.err.name = comp.input[Min(Redeclared(comp.input))].name
       /\ DOMAIN comp.stripped = {"tag", "err"}
       /\ ~ENABLED ReplaceSymbols

\* loop: Halt; Halt; loop: was stripped: DuplicateSymbol("loop")
C15_Witness ==
    /\ comp.stage = "stripped"
    /\ comp.input = <<Label("loop"), Halt, Halt, Label("loop")>>
    /\ comp.stripped = Err(DuplicateSymbol("loop"))

(* C16: when replace_symbols is given a Program without Label
   pseudo-instruction in which a Jmp, Bz or Bnz names a label that is no key of
   the SymbolTable, it fails with NoSuchSymbol carrying such a name (the first
   one in program order), whichever of the three mnemonics refers to it and
   wherever the instruction stands. *)
C16_NoSuchSymbol ==
    (Replaced /\ LabelIdx(ReplaceInput) = {} /\ Unresolved(ReplaceInput, ReplaceTable) # {})
    => /\ comp.replaced.tag = "Err"
       /\ comp.replaced.err.e = "NoSuchSymbol"
       /\ comp.replaced.err.name \notin DOMAIN ReplaceTable
       /\ comp.replaced.err.name
            = ReplaceInput[Min(Unresolved(ReplaceInput, ReplaceTable))].imm.name

\* Halt; Jmp start; Bz loop was given to replace_symbols with the table
\* {start: 0}: NoSuchSymbol("loop")
C16_Witness ==
    /\ comp.stage = "replaced"
    /\ comp.input = <<Halt, Jmp(LabelOp("start")), Bz(LabelOp("loop"))>>
    /\ DOMAIN comp.symbols = {"start"}
    /\ comp.replaced = Err(NoSuchSymbol("loop"))

(* C17: when strip_symbols succeeds, its output is the sequence of the
   non-Label instructions of the input in their order, and its table maps
   exactly the declared labels, each to the number of non-Label instructions
   before its declaration, which is the index in the output of the next real
   instruction; a label does not advance the address, so consecutive labels
   share one. *)
C17_StripAddresses ==
    (comp.stage = "stripped" /\ comp.stripped.tag = "Ok")
    => LET p == comp.input
           out == comp.stripped.v[1]
           table == comp.stripped.v[2]
       IN /\ out = Real(p)
          /\ DOMAIN table = Declared(p)
          /\ \A k \in LabelIdx(p) :
               /\ table[p[k].name] = RealBefore(p, k)
               /\ \A j \in (k + 1)..Len(p) :
                    (p[j].op # "Label" /\ \A m \in k..(j - 1) : p[m].op = "Label")
                    => out[table[p[k].name] + 1] = p[j]
               /\ (k < Len(p) /\ p[k + 1].op = "Label")
                    => table[p[k + 1].name] = table[p[k].name]

\* Halt; start: loop: Jmp 1 was stripped: both labels are at address 1
C17_Witness ==
    /\ comp.stage = "stripped"
    /\ comp.input = <<Halt, Label("start"), Label("loop"), Jmp(Imm12(1))>>
    /\ comp.stripped.tag = "Ok"
    /\ comp.stripped.v[1] = <<Halt, Jmp(Imm12(1))>>
    /\ comp.stripped.v[2]["start"] = 1
    /\ comp.stripped.v[2]["loop"] = 1

\* what replace_symbols does on success: same length, every instruction that is
\* no branch on a Label copied to the same index
CopiesThrough ==
    comp.replaced.tag = "Ok"
    => /\ Len(comp.replaced.v) = Len(ReplaceInput)
       /\ \A k \in 1..Len(ReplaceInput) :
            ~LabelRef(ReplaceInput[k]) => comp.replaced.v[k] = ReplaceInput[k]

(* C18 as stated: replace_symbols fails with UnstrippedSymbol whenever its
   input contains a Label pseudo-instruction; otherwise a successful call
   returns a Program of the same length with every instruction that is no
   branch on a Label copied unchanged to the same index. *)
C18_Original ==
    Replaced
    => /\ LabelIdx(ReplaceInput) # {}
          => (comp.replaced.tag = "Err" /\ comp.replaced.err.e = "UnstrippedSymbol")
       /\ CopiesThrough

(* C18, amended: replace_symbols fails whenever its input contains a Label
   pseudo-instruction: with UnstrippedSymbol carrying the first Label's name,
   unless a branch before that Label names a label missing from the table,
   and then with NoSuchSymbol carrying the first such name. Whenever it
   succeeds, the output has the length of the input and every instruction that
   is no Jmp/Bz/Bnz on a Label, branches on an Imm12 included, is copied
   unchanged to the same index. The table strip_symbols made is still the one
   it made. *)
C18_Replace ==
    Replaced
    => /\ LabelIdx(ReplaceInput) # {}
          => LET first == Min(LabelIdx(ReplaceInput))
                 before == {k \in Unresolved(ReplaceInput, ReplaceTable) : k < first}
             IN comp.replaced =
                  IF before = {} THEN Err(UnstrippedSymbol(ReplaceInput[first].name))
                  ELSE Err(NoSuchSymbol(ReplaceInput[Min(before)].imm.name))
       /\ CopiesThrough
       /\ comp.stage = "resolved" => comp.stripped \in strip_symbols(comp.input)

\* Jmp loop; start: was given to replace_symbols with the table {start: 0}:
\* the failure is NoSuchSymbol("loop"), met before the Label
C18_Witness ==
    /\ comp.stage = "replaced"
    /\ comp.input = <<Jmp(LabelOp("loop")), Label("start")>>
    /\ DOMAIN comp.symbols = {"start"}
    /\ comp.replaced = Err(NoSuchSymbol("loop"))

----------------------------------------------------------------------------
(* assembler/encoder.rs: the instruction encoder *)

(* A u32 is the set of the positions 0..31 of its one-bits, so that masks,
   complements and shifts are computed on all 32 bits. *)

\* a literal or a widened u8/u16 (`x as u32`), for x below 2^31
u32(x) == {k \in 0..30 : Bit(x, k) = 1}
\* !a, a & b, a | b
u32_not(a) == (0..31) \ a
u32_and(a, b) == a \cap b
u32_or(a, b) == a \cup b
\* a << n for n < 32: the bits shifted past position 31 are lost
u32_shl(a, n) == {k + n : k \in a} \cap (0..31)

\* the number a word below 2^31 stands for
RECURSIVE u32_value(_)
u32_value(a) ==
    IF a = {} THEN 0
    ELSE LET k == CHOOSE x \in a : TRUE IN 2 ^ k + u32_value(a \ {k})

(* InstrBuilder: each setter takes the builder's word and returns the new word *)

\* InstrBuilder::new
InstrBuilder_new == u32(0)

\* opcode(op): bits 0-5; the mask is 0x3F
InstrBuilder_opcode(word, op) ==
    u32_or(u32_and(word, u32_not(u32(63))), u32_and(u32(op), u32(63)))

\* set_reg(value, shift): a 4-bit field at shift; the mask is 0x0F
InstrBuilder_set_reg(word, value, shift) ==
    u32_or(u32_and(word, u32_not(u32_shl(u32(15), shift))),
           u32_shl(u32_and(u32(value), u32(15)), shift))

\* rd(reg): bits 8-11; rs1(reg): bits 12-15; rs2(reg): bits 16-19
InstrBuilder_rd(word, reg) == InstrBuilder_set_reg(word, reg, 8)
InstrBuilder_rs1(word, reg) == InstrBuilder_set_reg(word, reg, 12)
InstrBuilder_rs2(word, reg) == InstrBuilder_set_reg(word, reg, 16)

\* imm8(imm): bits 16-23; the mask is 0xFF0000
InstrBuilder_imm8(word, imm) ==
    u32_or(u32_and(word, u32_not(u32(16711680))), u32_shl(u32(imm), 16))

\* finalize: the low 24 bits as a number; the mask is 0xFFFFFF
InstrBuilder_finalize(word) == u32_value(u32_and(word, u32(16777215)))

(* AsmError, as far as encode returns it *)
UnknownInstruction(i) == [e |-> "UnknownInstruction", instr |-> i]
InvalidOperand(s) == [e |-> "InvalidOperand", msg |-> s]

\* the arm Instr::Halt
encode_Halt == Ok(0)

\* the arm Instr::Addi {rd, rs1, imm}
encode_Addi(instr) ==
    IF IsReg(instr.rd) /\ IsReg(instr.rs1) /\ IsImm8(instr.imm)
    THEN Ok(InstrBuilder_finalize(
             InstrBuilder_imm8(
                 InstrBuilder_rs1(
                     InstrBuilder_rd(InstrBuilder_opcode(InstrBuilder_new, 1), instr.rd.v),
                     instr.rs1.v),
                 instr.imm.v)))
    ELSE Err(InvalidOperand(""))

\* the arm Instr::Mv {rd, rs1}
encode_Mv(instr) ==
    IF IsReg(instr.rd) /\ IsReg(instr.rs1)
    THEN Ok(InstrBuilder_finalize(
             InstrBuilder_rs1(
                 InstrBuilder_rd(InstrBuilder_opcode(InstrBuilder_new, 1), instr.rd.v),
                 instr.rs1.v)))
    ELSE Err(InvalidOperand(""))

\* the Nop arm, had Nop been given the all-zero word
encode_Nop_all_zero == Ok(InstrBuilder_finalize(InstrBuilder_new))

\* the arm Instr::Nop
encode_Nop ==
    Ok(InstrBuilder_finalize(
           InstrBuilder_rs1(InstrBuilder_rd(InstrBuilder_opcode(InstrBuilder_new, 1), 0), 0)))

\* the arms Instr::Add and Instr::Sub {rd, rs1, rs2}, with opcode 2, resp. 3
encode_binary(instr, op) ==
    IF IsReg(instr.rd) /\ IsReg(instr.rs1) /\ IsReg(instr.rs2)
    THEN Ok(InstrBuilder_finalize(
             InstrBuilder_rs2(
                 InstrBuilder_rs1(
                     InstrBuilder_rd(InstrBuilder_opcode(InstrBuilder_new, op), instr.rd.v),
                     instr.rs1.v),
                 instr.rs2.v)))
    ELSE Err(InvalidOperand(""))
encode_Add(instr) == encode_binary(instr, 2)
encode_Sub(instr) == encode_binary(instr, 3)

\* the arm Instr::Jmp {imm: target}
encode_Jmp(instr) == IF IsImm12(instr.imm) THEN Ok(0) ELSE Err(InvalidOperand(""))

\* encode(instr): Ok(word), Err(AsmError), or Abort where the code panics
encode(instr) ==
    CASE instr.op = "Label" -> Abort
      [] instr.op = "Halt" -> encode_Halt
      [] instr.op = "Addi" -> encode_Addi(instr)
      [] instr.op = "Mv" -> encode_Mv(instr)
      [] instr.op = "Nop" -> encode_Nop
      [] instr.op = "Add" -> encode_Add(instr)
      [] instr.op = "Sub" -> encode_Sub(instr)
      [] instr.op = "Jmp" -> encode_Jmp(instr)
      [] OTHER -> Err(UnknownInstruction(instr))

(* The encoder as a state machine: an instruction is handed to encode *)

\* addi r0, r0, 0 of test_encode
TestAddi == Addi(Reg(0), Reg(0), Imm8(0))

\* a jump whose Imm12 operand holds a value of 13 bits
TestOverflow == Jmp(Imm12(Imm12Max + 1))

\* AsmError::ImmOverflow
ImmOverflow(v) == [e |-> "ImmOverflow", imm |-> v]

\* the loop of encode_program from the i-th instruction on
RECURSIVE encode_loop(_, _, _)
encode_push(instrs, i, out, word) ==
    IF word = Abort \/ word.tag = "Err" THEN word
    ELSE encode_loop(instrs, i + 1, Append(out, word.v))
encode_loop(instrs, i, out) ==
    IF i > Len(instrs) THEN Ok(out) ELSE encode_push(instrs, i, out, encode(instrs[i]))

\* encode_program(instrs): Ok(words), Err(AsmError), or Abort where encode panics
encode_program(instrs) == encode_loop(instrs, 1, <<>>)

\* programs of up to MaxEncLen instructions handed to encode_program
MaxEncLen == 2
EncAlphabet ==
    {Halt, Nop, TestAddi, Jmp(Imm12(1)), TestOverflow, Bz(Imm12(0)), Label("start")}
EncPrograms == SeqsUpTo(EncAlphabet, MaxEncLen)

EncInit ==
    /\ Idle
    /\ comp = NoComp
    /\ enc \in {[stage |-> "instr", instr |-> i] : i \in Instrs \cup {TestAddi, TestOverflow}}
               \cup {[stage |-> "program", instrs |-> p] : p \in EncPrograms}

\* the call encode(&instr)
Encode ==
    /\ enc.stage = "instr"
    /\ enc' = [stage |-> "encoded", instr |-> enc.instr, res |-> encode(enc.instr)]
    /\ UNCHANGED <<interp, comp>>

\* the call encode_program(&instrs)
EncodeProgram ==
    /\ enc.stage = "program"
    /\ enc' = [stage |-> "assembled", instrs |-> enc.instrs, res |-> encode_program(enc.instrs)]
    /\ UNCHANGED <<interp, comp>>

EncNext ==
    \/ Encode
    \/ EncodeProgram

EncSpec == EncInit /\ [][EncNext]_vars

(* C19: encode maps Halt to the all-zero word, and Nop to the word of
   addi r0, r0, 0: the opcode 0b000001 in bits 0-5 and every other bit zero,
   the number 1. *)
C19_HaltNopWords ==
    enc.stage = "encoded"
    => /\ enc.instr = Halt => enc.res = Ok(0)
       /\ enc.instr \in {Nop, TestAddi}
          => /\ enc.res.tag = "Ok"
             /\ enc.res.v % 64 = 1
             /\ enc.res.v \div 64 = 0
             /\ enc.res = encode(Nop)
             /\ enc.res = encode(TestAddi)

\* Nop was encoded: the word is 1
C19_Witness ==
    /\ enc.stage = "encoded"
    /\ enc.instr = Nop
    /\ enc.res = Ok(1)

----------------------------------------------------------------------------
(* compiler/parser.rs: the line parser. A &str is the sequence of its
   characters, each a one-character string; a label name that comes out of the
   parser is such a sequence. *)

Lower == <<"a", "b", "c", "d", "e", "f", "g", "h", "i", "j", "k", "l", "m",
           "n", "o", "p", "q", "r", "s", "t", "u", "v", "w", "x", "y", "z">>
Upper == <<"A", "B", "C", "D", "E", "F", "G", "H", "I", "J", "K", "L", "M",
           "N", "O", "P", "Q", "R", "S", "T", "U", "V", "W", "X", "Y", "Z">>
Digits == <<"0", "1", "2", "3", "4", "5", "6", "7", "8", "9">>

Range(s) == {s[k] : k \in 1..Len(s)}
IndexOf(s, c) == CHOOSE k \in 1..Len(s) : s[k] = c

\* the character classes of nom's alpha1, digit1, hex_digit1 and multispace0
Alpha == Range(Lower) \cup Range(Upper)
Digit == Range(Digits)
HexDigit == Digit \cup Range(SubSeq(Lower, 1, 6)) \cup Range(SubSeq(Upper, 1, 6))
MultiSpace == {" ", "\t", "\r", "\n"}
\* the White_Space characters str::trim removes, as far as a string can hold them here
WhiteSpace == MultiSpace \cup {"\f"}

\* str::to_uppercase on ASCII text
to_uppercase_char(c) == IF c \in Range(Lower) THEN Upper[IndexOf(Lower, c)] ELSE c
to_uppercase(s) == [k \in 1..Len(s) |-> to_uppercase_char(s[k])]

\* the value of a decimal or hexadecimal digit
digit_value(c) ==
    IF c \in Digit THEN IndexOf(Digits, c) - 1
    ELSE 9 + IndexOf(SubSeq(Upper, 1, 6), to_uppercase_char(c))

(* nom: a parser returns Ok((rest, output)) or Err(Error {input, code}) *)
NomOk(rest, out) == [tag |-> "Ok", rest |-> rest, out |-> out]
NomErr(input, code) == [tag |-> "Err", err |-> [input |-> input, code |-> code]]

\* the length of the longest prefix of s made of characters of C
RECURSIVE PrefixLen(_, _)
PrefixLen(s, C) ==
    IF Len(s) = 0 \/ Head(s) \notin C THEN 0 ELSE 1 + PrefixLen(Tail(s), C)

\* a parser's success after it consumed the first n characters of input
split_at(input, n) == NomOk(SubSeq(input, n + 1, Len(input)), SubSeq(input, 1, n))

\* zero or more, resp. one or more, characters of a class
many0(C, input) == split_at(input, PrefixLen(input, C))
at_least_one(res, code, input) == IF Len(res.out) = 0 THEN NomErr(input, code) ELSE res
many1(C, code, input) == at_least_one(many0(C, input), code, input)

multispace0(input) == many0(MultiSpace, input)
alpha1(input) == many1(Alpha, "Alpha", input)
digit1(input) == many1(Digit, "Digit", input)
hex_digit1(input) == many1(HexDigit, "HexDigit", input)

\* char(c) and tag(t)
nom_char(c, input) ==
    IF Len(input) > 0 /\ Head(input) = c THEN NomOk(Tail(input), c)
    ELSE NomErr(input, "Char")
nom_tag(t, input) ==
    IF Len(input) >= Len(t) /\ SubSeq(input, 1, Len(t)) = t
    THEN NomOk(SubSeq(input, Len(t) + 1, Len(input)), t)
    ELSE NomErr(input, "Tag")

(* nom's combinators, each applied to the result res of the parser before it *)
\* alt((a, b)): a's success, else whatever b returns
alt(a, b) == IF a.tag = "Ok" THEN a ELSE b
\* map(p, f) with the output f(r.out) already computed
map(res, out) == IF res.tag = "Ok" THEN NomOk(res.rest, out) ELSE res
\* map_res(p, f): f's Option decides between success and a MapRes error at input
map_res(res, val, input) ==
    IF res.tag = "Err" THEN res
    ELSE IF val.tag = "Some" THEN NomOk(res.rest, val.v)
    ELSE NomErr(input, "MapRes")

\* u8/u16::from_str_radix on a run of digits: None when the value exceeds max
RECURSIVE from_str_radix(_, _, _, _)
from_str_radix(s, radix, max, acc) ==
    IF Len(s) = 0 THEN Some(acc)
    ELSE IF acc * radix + digit_value(Head(s)) > max THEN None
    ELSE from_str_radix(Tail(s), radix, max, acc * radix + digit_value(Head(s)))

\* the digits r found, read in a radix
radix_value(res, radix, max) ==
    IF res.tag = "Ok" THEN from_str_radix(res.out, radix, max, 0) ELSE None
number(res, radix, max, input) == map_res(res, radix_value(res, radix, max), input)

\* preceded(tag("0x"), hex_digit1)
then_hex_digit1(prefix) == IF prefix.tag = "Ok" THEN hex_digit1(prefix.rest) ELSE prefix
hex_literal(input) == then_hex_digit1(nom_tag(<<"0", "x">>, input))

\* parse_u16 and parse_u8: alt(("0x" hex digits, decimal digits)), the value at most max
parse_number(input, max) ==
    alt(number(hex_literal(input), 16, max, input), number(digit1(input), 10, max, input))
parse_u16(input) == parse_number(input, U16Max)
parse_u8(input) == parse_number(input, U8Max)

\* parse_reg: 'r' and a u8
then_parse_u8(c) == IF c.tag = "Ok" THEN parse_u8(c.rest) ELSE c
map_Reg(n) == map(n, Reg(n.out))
parse_reg(input) == map_Reg(then_parse_u8(nom_char("r", input)))

map_Imm8(n) == map(n, Imm8(n.out))
parse_imm8(input) == map_Imm8(parse_u8(input))

\* parse_imm12: a u16 that fits 12 bits
fits_Imm12(n) == IF n.tag = "Ok" /\ n.out <= Imm12Max THEN Some(Imm12(n.out)) ELSE None
map_res_Imm12(n, input) == map_res(n, fits_Imm12(n), input)
parse_imm12(input) == map_res_Imm12(parse_u16(input), input)

map_Label(a) == map(a, LabelOp(a.out))
parse_label_ref(input) == map_Label(alpha1(input))

\* parse_label: terminated(alpha1, char(':'))
terminated_colon(a) == IF a.tag = "Ok" THEN map(nom_char(":", a.rest), a.out) ELSE a
parse_label(input) == terminated_colon(alpha1(input))

\* (char(','), multispace0)
then_multispace0(c) == IF c.tag = "Ok" THEN multispace0(c.rest) ELSE c
separator(input) == then_multispace0(nom_char(",", input))

\* preceded((char(','), multispace0), parse_reg), resp. parse_imm8
then_parse_reg(s) == IF s.tag = "Ok" THEN parse_reg(s.rest) ELSE s
next_reg(input) == then_parse_reg(separator(input))
then_parse_imm8(s) == IF s.tag = "Ok" THEN parse_imm8(s.rest) ELSE s
next_imm8(input) == then_parse_imm8(separator(input))

(* the operand lists of the four kinds of mnemonic: each operand is parsed
   where the one before it stopped, and the first failure is the result *)
unary_rs1(op, rd, b) == map(b, <<[op |-> op, rd |-> rd, rs1 |-> b.out]>>)
unary_rd(op, a) == IF a.tag = "Ok" THEN unary_rs1(op, a.out, next_reg(a.rest)) ELSE a
parse_unary(op, input) == unary_rd(op, parse_reg(input))

binary_rs2(op, rd, rs1, c) ==
    map(c, <<[op |-> op, rd |-> rd, rs1 |-> rs1, rs2 |-> c.out]>>)
binary_rs1(op, rd, b) ==
    IF b.tag = "Ok" THEN binary_rs2(op, rd, b.out, next_reg(b.rest)) ELSE b
binary_rd(op, a) == IF a.tag = "Ok" THEN binary_rs1(op, a.out, next_reg(a.rest)) ELSE a
parse_binary(op, input) == binary_rd(op, parse_reg(input))

immediate_imm(op, rd, rs1, c) ==
    map(c, <<[op |-> op, rd |-> rd, rs1 |-> rs1, imm |-> c.out]>>)
immediate_rs1(op, rd, b) ==
    IF b.tag = "Ok" THEN immediate_imm(op, rd, b.out, next_imm8(b.rest)) ELSE b
immediate_rd(op, a) ==
    IF a.tag = "Ok" THEN immediate_rs1(op, a.out, next_reg(a.rest)) ELSE a
parse_immediate(op, input) == immediate_rd(op, parse_reg(input))

branch_imm(op, t) == map(t, <<[op |-> op, imm |-> t.out]>>)
parse_branch(op, input) == branch_imm(op, alt(parse_label_ref(input), parse_imm12(input)))

\* the mnemonics parse_line matches the upper-cased opcode against, each with its Instr variant
Mnemonics ==
    {<<<<"H", "A", "L", "T">>, "Halt">>,
     <<<<"N", "O", "P">>, "Nop">>,
     <<<<"M", "V">>, "Mv">>,
     <<<<"N", "O", "T">>, "Not">>,
     <<<<"A", "D", "D">>, "Add">>,
     <<<<"S", "U", "B">>, "Sub">>,
     <<<<"A", "N", "D">>, "And">>,
     <<<<"O", "R">>, "Or">>,
     <<<<"X", "O", "R">>, "Xor">>,
     <<<<"A", "D", "D", "I">>, "Addi">>,
     <<<<"A", "N", "D", "I">>, "Andi">>,
     <<<<"O", "R", "I">>, "Ori">>,
     <<<<"X", "O", "R", "I">>, "Xori">>,
     <<<<"J", "M", "P">>, "Jmp">>,
     <<<<"B", "Z">>, "Bz">>,
     <<<<"B", "N", "Z">>, "Bnz">>}

\* the Instr variants the upper-cased opcode names: one, or none
known(opcode) == {m[2] : m \in {k \in Mnemonics : k[1] = opcode}}

\* the arm of parse_line's match for the variant op, the operands starting at args
match_arm(op, args) ==
    CASE op = "Halt" -> NomOk(args, <<Halt>>)
      [] op = "Nop" -> NomOk(args, <<Nop>>)
      [] op \in UnaryOps -> parse_unary(op, args)
      [] op \in BinaryOps -> parse_binary(op, args)
      [] op \in ImmediateOps -> parse_immediate(op, args)
      [] OTHER -> parse_branch(op, args)

\* the match on the opcode word: its last arm is the Tag error at the word
match_opcode(word, ops, args) ==
    IF ops = {} THEN NomErr(word, "Tag") ELSE match_arm(CHOOSE op \in ops : TRUE, args)

\* terminated(alpha1, multispace0) and the match
parse_instr(word) ==
    IF word.tag = "Err" THEN word
    ELSE match_opcode(word.out, known(to_uppercase(word.out)), multispace0(word.rest).rest)

\* a label if the line starts with one, else an instruction
label_or_instr(label, start) ==
    IF label.tag = "Ok" THEN NomOk(label.rest, <<Label(label.out)>>)
    ELSE parse_instr(alpha1(start))
after_blanks(start) == label_or_instr(parse_label(start), start)

\* parse_line: leading blanks, then a label or an opcode with its operands;
\* what follows on the line is returned unread
parse_line(input) == after_blanks(multispace0(input).rest)

\* ParserError::Error(line, text): the text is kept as the nom error it prints
ParserError(n, text) == [e |-> "Error", line |-> n, msg |-> text]

\* the number of characters of s before the first c
RECURSIVE Before(_, _)
Before(s, c) == IF Len(s) = 0 \/ Head(s) = c THEN 0 ELSE 1 + Before(Tail(s), c)

\* str::lines: split at "\n", a "\r" before it belonging to the line ending;
\* what follows the last "\n" is a line unless it is empty
RECURSIVE lines(_)
lines(src) ==
    IF Len(src) = 0 THEN <<>>
    ELSE LET n == Before(src, "\n")
             ended == n < Len(src)
             cr == ended /\ n > 0 /\ src[n] = "\r"
         IN <<SubSeq(src, 1, IF cr THEN n - 1 ELSE n)>>
            \o lines(SubSeq(src, n + 2, Len(src)))

\* str::trim, is_empty and starts_with
RECURSIVE trim_end(_)
trim_end(s) ==
    IF Len(s) > 0 /\ s[Len(s)] \in WhiteSpace THEN trim_end(SubSeq(s, 1, Len(s) - 1)) ELSE s
trim(s) == trim_end(SubSeq(s, PrefixLen(s, WhiteSpace) + 1, Len(s)))
is_empty(s) == Len(s) = 0
starts_with(s, c) == Len(s) > 0 /\ s[1] = c

\* iter.enumerate(): the pairs (n, line), n from 0
enumerate(ls) == [k \in 1..Len(ls) |-> <<k - 1, ls[k]>>]

\* the test that makes parse_program skip a line
skips(line) == LET trimmed == trim(line) IN is_empty(trimmed) \/ starts_with(trimmed, ";")

\* the loop of parse_program from the i-th pair on
RECURSIVE parse_loop(_, _, _)
\* the match on what parse_line returned for the i-th pair
parse_arm(items, i, program, parsed) ==
    IF parsed.tag = "Ok" THEN parse_loop(items, i + 1, program \o parsed.out)
    ELSE Err(ParserError(items[i][1] + 1, parsed.err))
parse_loop(items, i, program) ==
    IF i > Len(items) THEN Ok(program)
    ELSE IF skips(items[i][2]) THEN parse_loop(items, i + 1, program)
    ELSE parse_arm(items, i, program, parse_line(items[i][2]))

\* parse_program, had it numbered only the lines it does not skip
parse_program_numbers_kept(src) ==
    parse_loop(enumerate(SelectSeq(lines(src), LAMBDA l : ~skips(l))), 1, <<>>)

\* parse_program(src): Ok(program) or Err(ParserError)
parse_program(src) == parse_loop(enumerate(lines(src)), 1, <<>>)

(* The lines the sources of the model are made of *)
\* an empty line
SrcBlank == <<>>
\* a line of blanks
SrcSpaces == <<" ", "\t">>
\* a comment
SrcComment == <<";", " ", "c">>
\* a comment after blanks
SrcIndentedComment == <<" ", " ", ";", "x">>
\* test_parser: halt
SrcHalt == <<"h", "a", "l", "t">>
\* nop, indented, in mixed case, before a CR LF line ending
SrcNop == <<" ", "N", "o", "p", "\r">>
\* test_parser: a label
SrcLabel == <<"l", "o", "o", "p", ":">>
\* test_parser: a jump to a label
SrcJmp == <<"j", "m", "p", " ", "l", "o", "o", "p">>
\* an addi with a hexadecimal immediate
SrcAddi == <<"a", "d", "d", "i", " ", "r", "1", ",", " ", "r", "0", ",", " ", "0", "x", "2">>
\* test_parser: the malformed mv
SrcMalformedMv == <<"m", "v", " ", "r", "0", ",", " ", "0">>
\* an unknown mnemonic
SrcUnknown == <<"b", "o", "g", "u", "s">>
\* a form feed, which trim removes and multispace0 does not
SrcFormFeed == <<"\f", "h", "a", "l", "t">>
\* a branch target beyond 12 bits
SrcTooLarge == <<"b", "z", " ", "4", "0", "9", "6">>

SampleLines ==
    {SrcBlank,
     SrcSpaces,
     SrcComment,
     SrcIndentedComment,
     SrcHalt,
     SrcNop,
     SrcLabel,
     SrcJmp,
     SrcAddi,
     SrcMalformedMv,
     SrcUnknown,
     SrcFormFeed,
     SrcTooLarge}

(* The parser as a state machine: a source text is handed to parse_program *)

\* sources of up to MaxLines lines
MaxLines == 3

\* the lines joined by "\n"
RECURSIVE Join(_)
Join(ls) ==
    IF Len(ls) = 0 THEN <<>>
    ELSE IF Len(ls) = 1 THEN ls[1]
    ELSE ls[1] \o <<"\n">> \o Join(Tail(ls))

\* a source is made of the lines `text`, with or without a final line ending
ParseInit ==
    /\ Idle
    /\ enc = NoEnc
    /\ comp \in {[stage |-> "source", text |-> ls,
                  src |-> Join(ls) \o (IF nl THEN <<"\n">> ELSE <<>>)] :
                    ls \in SeqsUpTo(SampleLines, MaxLines), nl \in BOOLEAN}

\* compile_program's call parse_program(src)
ParseProgram ==
    /\ comp.stage = "source"
    /\ comp' = [stage |-> "read", text |-> comp.text, src |-> comp.src,
                parsed |-> parse_program(comp.src)]
    /\ UNCHANGED <<interp, enc>>

ParseNext == ParseProgram

ParseSpec == ParseInit /\ [][ParseNext]_vars

\* a line of blanks only; a line whose first character that is no blank is ';'
Blank(line) == \A k \in 1..Len(line) : line[k] \in WhiteSpace
Comment(line) ==
    \E k \in 1..Len(line) : line[k] = ";" /\ \A j \in 1..(k - 1) : line[j] \in WhiteSpace

(* C20: parse_program emits nothing for a blank line or a line whose first
   non-blank character is ';': when every other line parses, the Program is
   the instructions of those other lines in order. Otherwise it returns an
   error and no Program, and the error's line number is the 1-based index, in
   the source with its blank and comment lines counted, of the first line that
   fails to parse. *)
C20_ParseProgram ==
    comp.stage = "read"
    => LET ls == comp.text
           kept == {k \in 1..Len(ls) : ~(Blank(ls[k]) \/ Comment(ls[k]))}
           bad == {k \in kept : parse_line(ls[k]).tag = "Err"}
           res == comp.parsed
       IN IF bad = {}
          THEN /\ res.tag = "Ok"
               /\ Len(res.v) = Cardinality(kept)
               /\ \A k \in kept :
                    <<res.v[Cardinality({j \in kept : j <= k})]>> = parse_line(ls[k]).out
          ELSE /\ res.tag = "Err"
               /\ res.err.e = "Error"
               /\ res.err.line = Min(bad)
               /\ DOMAIN res = {"tag", "err"}

\* halt, a comment and an unknown mnemonic were parsed: the error names line 3
C20_Witness ==
    /\ comp.stage = "read"
    /\ comp.text = <<SrcHalt, SrcComment, SrcUnknown>>
    /\ comp.parsed.tag = "Err"
    /\ comp.parsed.err.line = 3


----------------------------------------------------------------------------
(* assembler/encoder.rs: the InstrBuilder setters the arms of encode do not
   use, and the builder as a state machine of chained setter calls *)

\* fun2(fun): bits 6-7; the mask is 0xC0
InstrBuilder_fun2(word, fun) ==
    u32_or(u32_and(word, u32_not(u32(192))), u32_shl(u32_and(u32(fun), u32(3)), 6))

\* fun4(fun): the mask is 0xF0000, the shift is 20
InstrBuilder_fun4(word, fun) ==
    u32_or(u32_and(word, u32_not(u32(983040))), u32_shl(u32_and(u32(fun), u32(15)), 20))

\* imm12(imm): the mask is 0xFFF000, the u16 is shifted by 12 unmasked
InstrBuilder_imm12(word, imm) ==
    u32_or(u32_and(word, u32_not(u32(16773120))), u32_shl(u32(imm), 12))

\* the public setters, by name, and the bits the documentation gives each
Setters == {"opcode", "fun2", "fun4", "rd", "rs1", "rs2", "imm8", "imm12"}
FieldBits(f) ==
    CASE f = "opcode" -> 0..5
      [] f = "fun2" -> 6..7
      [] f = "fun4" -> 20..23
      [] f = "rd" -> 8..11
      [] f = "rs1" -> 12..15
      [] f = "rs2" -> 16..19
      [] f = "imm8" -> 16..23
      [] f = "imm12" -> 12..23

\* the call b.f(v)
set_field(f, word, v) ==
    CASE f = "opcode" -> InstrBuilder_opcode(word, v)
      [] f = "fun2" -> InstrBuilder_fun2(word, v)
      [] f = "fun4" -> InstrBuilder_fun4(word, v)
      [] f = "rd" -> InstrBuilder_rd(word, v)
      [] f = "rs1" -> InstrBuilder_rs1(word, v)
      [] f = "rs2" -> InstrBuilder_rs2(word, v)
      [] f = "imm8" -> InstrBuilder_imm8(word, v)
      [] f = "imm12" -> InstrBuilder_imm12(word, v)

\* the u8 arguments, and the u16 arguments of imm12, the calls are made with
BuilderU8 == {0, 5, 10, U8Max}
BuilderU16 == {0, 5, Imm12Max, Imm12Max + 1, U16Max}
SetterArgs(f) == IF f = "imm12" THEN BuilderU16 ELSE BuilderU8

\* chains of up to MaxSets setter calls
MaxSets == 2

NoCall == [field |-> "none"]

\* InstrBuilder::new()
BuildInit ==
    /\ Idle
    /\ comp = NoComp
    /\ enc = [stage |-> "builder", word |-> InstrBuilder_new, calls |-> 0, last |-> NoCall]

\* one chained call b = b.f(v)
Call(f) ==
    /\ enc.stage = "builder"
    /\ enc.calls < MaxSets
    /\ \E v \in SetterArgs(f) :
         enc' = [stage |-> "builder", word |-> set_field(f, enc.word, v),
                 calls |-> enc.calls + 1,
                 last |-> [field |-> f, value |-> v, pre |-> enc.word]]
    /\ UNCHANGED <<interp, comp>>

SetOpcode == Call("opcode")
SetFun2 == Call("fun2")
SetFun4 == Call("fun4")
SetRd == Call("rd")
SetRs1 == Call("rs1")
SetRs2 == Call("rs2")
SetImm8 == Call("imm8")
SetImm12 == Call("imm12")

\* b.finalize()
Finalize ==
    /\ enc.stage = "builder"
    /\ enc' = [stage |-> "final", word |-> enc.word, out |-> InstrBuilder_finalize(enc.word)]
    /\ UNCHANGED <<interp, comp>>

BuildNext ==
    \/ SetOpcode
    \/ SetFun2
    \/ SetFun4
    \/ SetRd
    \/ SetRs1
    \/ SetRs2
    \/ SetImm8
    \/ SetImm12
    \/ Finalize

BuildSpec == BuildInit /\ [][BuildNext]_vars

\* a setter was called on the builder
Called == enc.stage = "builder" /\ enc.last # NoCall

(* C21: a setter changes only the bits of its own field and overwrites the
   field completely: the bits outside the field are those of the word before
   the call, the bits of the field are those the same call leaves in an empty
   word, and a call of a setter whose field does not overlap commutes with it. *)
C21_FieldSetters ==
    Called
    => LET f == enc.last.field
           v == enc.last.value
           pre == enc.last.pre
           F == FieldBits(f)
       IN /\ enc.word \ F = pre \ F
          /\ enc.word \cap F = set_field(f, InstrBuilder_new, v)
          /\ \A g \in Setters : \A x \in SetterArgs(g) :
               FieldBits(g) \cap F = {}
               => set_field(g, enc.word, x) = set_field(f, set_field(g, pre, x), v)

(* C22: the word of Jmp {Imm12(a)} holds a in its bits 12-23, so it differs
   from the word of a Jmp to another target and from the word of Halt. *)
C22_JmpWord ==
    (enc.stage = "encoded" /\ enc.instr.op = "Jmp" /\ IsImm12(enc.instr.imm))
    => /\ enc.res.tag = "Ok"
       /\ (enc.res.v \div 4096) % 4096 = enc.instr.imm.v
       /\ enc.res # encode(Halt)
       /\ \A b \in Targets : b # enc.instr.imm.v => encode(Jmp(Imm12(b))) # enc.res

\* the instruction carries an Imm12 operand too large for 12 bits
Oversized(i) == i.op \in BranchOps /\ IsImm12(i.imm) /\ i.imm.v > Imm12Max

(* C23: encode returns the ImmOverflow error for an instruction whose Imm12
   operand exceeds 4095, and encode_program does not return Ok for a Program
   that contains such an instruction. *)
C23_ImmOverflow ==
    /\ (enc.stage = "encoded" /\ Oversized(enc.instr))
       => enc.res = Err(ImmOverflow(enc.instr.imm.v))
    /\ (enc.stage = "assembled" /\ \E k \in 1..Len(enc.instrs) : Oversized(enc.instrs[k]))
       => (enc.res = Abort \/ enc.res.tag # "Ok")


----------------------------------------------------------------------------
(* interpreter: the last address. A Program of u16::MAX + 1 instructions is
   run from a PC near its end, and interpret is called on a State whose PC is
   near u16::MAX. *)

\* a Program of 65536 instructions: Halt, then Nop up to its last instruction x
LongProgram(x) ==
    [k \in 1..(U16Max + 1) |-> IF k = 1 THEN Halt ELSE IF k = U16Max + 1 THEN x ELSE Nop]

\* the instructions tried at address 65535
LastInstrs ==
    {Nop, Halt, Addi(Reg(1), Reg(0), Imm8(2)), Addi(Reg(0), Reg(NumRegs), Imm8(32)),
     Jmp(Imm12(0)), Bz(Imm12(0)), Bnz(Imm12(0))}

\* the PCs near u16::MAX a caller starts from
LastPCs == {U16Max - 1, U16Max}

\* interpret_program(prg, Some(initial_state)) is entered with a PC near the end
WrapRun ==
    /\ prg \in {LongProgram(x) : x \in LastInstrs}
    /\ initial_state \in {Some([StateDefault EXCEPT !.pc = p]) : p \in LastPCs}
    /\ state = unwrap_or_default(initial_state)
    /\ ctl = "loop"
    /\ status = None
    /\ last = NoStep
    /\ comp = NoComp
    /\ enc = NoEnc

\* a caller holds a State with a PC near u16::MAX and is about to call interpret on it
WrapCall ==
    /\ prg = <<>>
    /\ initial_state = None
    /\ state \in {[StateDefault EXCEPT !.pc = p, !.flags = Flags(z, FALSE)] :
                    p \in LastPCs, z \in BOOLEAN}
    /\ ctl = "caller"
    /\ status = None
    /\ last = NoStep
    /\ comp = NoComp
    /\ enc = NoEnc

WrapInit == WrapRun \/ WrapCall

WrapSpec == WrapInit /\ [][Next]_vars

\* the latest step returned Ok(Some(state.pc + 1)): no branch was taken
Advanced ==
    /\ last.tag = "Step"
    /\ last.res.tag \in {"OkSome", "Abort"}
    /\ CASE last.instr.op = "Jmp" -> FALSE
         [] last.instr.op = "Bz" -> ~last.pre.flags.zero
         [] last.instr.op = "Bnz" -> last.pre.flags.zero
         [] OTHER -> TRUE

(* C24: no step ends the process abruptly: a step ends in a next PC within
   0..65535, a halt or an InterpreterError, and a step that advances from
   PC = 65535 neither aborts nor wraps the PC to 0. *)
C24_NoAbruptEnd ==
    /\ ctl # "aborted"
    /\ last.tag = "Step"
       => /\ last.res.tag \in {"OkSome", "OkNone", "Err"}
          /\ last.res.tag = "OkSome" => last.res.pc \in 0..U16Max
    /\ (Advanced /\ last.pre.pc = U16Max) => last.res # OkSome(0)


----------------------------------------------------------------------------
(* compiler/symbol.rs on Programs of about 4096 instructions: a branch to a
   label declared at the end, after `pad` instructions in between *)

\* branch l; Halt, pad times; l:
LongSymProgram(branch, l, pad) ==
    <<[op |-> branch, imm |-> LabelOp(l)]>> \o [k \in 1..pad |-> Halt] \o <<Label(l)>>

\* the numbers of Halt instructions: the label ends up at an address from 4094 to 4098
PadLens == (Imm12Max - 2)..(Imm12Max + 2)

LongSymInit ==
    /\ Idle
    /\ enc = NoEnc
    /\ comp \in {[stage |-> "parsed", input |-> LongSymProgram(b, l, n)] :
                   b \in BranchOps, l \in LabelNames, n \in PadLens}

LongSymSpec == LongSymInit /\ [][SymNext]_vars

\* the instructions of p that are a branch
Branches(p) == {k \in 1..Len(p) : p[k].op \in BranchOps}

(* C25: in what strip_symbols and then replace_symbols return, every branch
   target is an Imm12 with a value in 0..4095. *)
C25_TargetsFit ==
    (comp.stage = "resolved" /\ comp.replaced.tag = "Ok")
    => \A k \in Branches(comp.replaced.v) :
         /\ IsImm12(comp.replaced.v[k].imm)
         /\ comp.replaced.v[k].imm.v \in 0..Imm12Max


----------------------------------------------------------------------------
(* C26: a step that returns an InterpreterError leaves the registers, the
   flags and the PC as they were before it, and the state interpret_program
   returns with that error is the state the faulting instruction was fetched in. *)
C26_FaultAtomic ==
    (last.tag = "Step" /\ last.res.tag = "Err")
    => /\ last.post = last.pre
       /\ state = last.pre
       /\ ctl = "returned" => status = Some(last.res.err)

\* a run wrote 2 to r1, then faulted on the nonexistent register 16 at address 1
C26_Witness ==
    /\ ctl = "returned"
    /\ status = Some(InvalidRegister(NumRegs))
    /\ last.tag = "Step"
    /\ last.res = Err(InvalidRegister(NumRegs))
    /\ state.pc = 1
    /\ state.regs[1] = 2
    /\ ~state.flags.zero
    /\ state = last.pre


----------------------------------------------------------------------------
(* interpret_program on Programs without Jmp, Bz and Bnz *)

\* programs of up to MaxLinLen instructions that are no branch
MaxLinLen == 3
LinearAlphabet ==
    {Halt, Nop, Addi(Reg(1), Reg(0), Imm8(2)), Addi(Reg(0), Reg(NumRegs), Imm8(32))}
LinearPrograms == SeqsUpTo(LinearAlphabet, MaxLinLen)

LinearInit ==
    /\ prg \in LinearPrograms
    /\ initial_state \in {None} \cup {Some(s) : s \in RunStates}
    /\ state = unwrap_or_default(initial_state)
    /\ ctl = "loop"
    /\ status = None
    /\ last = NoStep
    /\ comp = NoComp
    /\ enc = NoEnc

LinearNext == LoopStep

\* the loop runs on until it breaks
LinearSpec == LinearInit /\ [][LinearNext]_vars /\ WF_vars(LoopStep)

Linear == \A k \in 1..Len(prg) : prg[k].op \notin BranchOps
\* the PC the run started at
StartPC == unwrap_or_default(initial_state).pc
\* the run ended in a Halt, resp. in an error returned by a step
EndedInHalt == status = None /\ last.tag = "Step" /\ last.res = OkNone
EndedInFault == last.tag = "Step" /\ last.res.tag = "Err" /\ status = Some(last.res.err)
\* the instructions executed so far, each successful step having advanced the PC by 1
ExecutedCount == (state.pc - StartPC) + (IF EndedInHalt \/ EndedInFault THEN 1 ELSE 0)

(* C27 as stated: a run of a Program of N instructions without branches ends
   with a Halt, a step fault or PCOutOfBounds(N). *)
C27_Original ==
    (Linear /\ ctl = "returned")
    => EndedInHalt \/ EndedInFault \/ status = Some(PCOutOfBounds(Len(prg)))

(* C27: a run of a Program of N < 65536 instructions without branches
   terminates after at most N instructions: each successful step adds 1 to the
   PC, and the run ends with a Halt, a step fault, or PCOutOfBounds(N) when it
   started at a PC up to N and PCOutOfBounds of the initial PC, no instruction
   executed, when it started beyond N. *)
C27_LinearRun ==
    /\ [][(Linear /\ ctl = "loop" /\ ctl' = "loop") => state'.pc = state.pc + 1]_vars
    /\ [](Linear => /\ ctl \in {"loop", "returned"}
                    /\ ExecutedCount \in 0..Len(prg)
                    /\ StartPC > Len(prg) => state.pc = StartPC /\ last = NoStep)
    /\ [](Linear /\ ctl = "returned"
            => \/ EndedInHalt
               \/ EndedInFault
               \/ status = Some(PCOutOfBounds(IF StartPC <= Len(prg) THEN Len(prg) ELSE StartPC)))
    /\ (Linear /\ Len(prg) <= U16Max) => <>(ctl = "returned")

\* two Nops were executed from PC 0 and the run fell off the end of the Program
C27_Witness ==
    /\ prg = <<Nop, Nop>>
    /\ initial_state = None
    /\ ctl = "returned"
    /\ status = Some(PCOutOfBounds(2))
    /\ last.tag = "Step"
    /\ last.pre.pc = 1


----------------------------------------------------------------------------
(* The compiled Program is run: strip_symbols, replace_symbols, then
   interpret_program(prg, None) as in lib.rs, test_integration *)

\* programs of up to MaxPipeLen instructions whose branch targets are all labels
MaxPipeLen == 3
PipeAlphabet ==
    {Label(l) : l \in LabelNames}
    \cup {Halt, Addi(Reg(1), Reg(0), Imm8(2))}
    \cup {[op |-> o, imm |-> LabelOp(l)] : o \in BranchOps, l \in LabelNames}
PipePrograms == SeqsUpTo(PipeAlphabet, MaxPipeLen)

PipeInit ==
    /\ Idle
    /\ enc = NoEnc
    /\ comp \in {[stage |-> "parsed", input |-> p] : p \in PipePrograms}

\* interpret_program(prg, None) is entered with what replace_symbols returned
RunCompiled ==
    /\ ctl = "idle"
    /\ comp.stage = "resolved"
    /\ comp.replaced.tag = "Ok"
    /\ prg' = comp.replaced.v
    /\ initial_state' = None
    /\ state' = unwrap_or_default(None)
    /\ ctl' = "loop"
    /\ UNCHANGED <<status, last, comp, enc>>

PipeNext ==
    \/ StripSymbols
    \/ ReplaceSymbols
    \/ RunCompiled
    \/ LoopStep

PipeSpec == PipeInit /\ [][PipeNext]_vars

\* the Program was stripped; the Program is being run or was run
Stripped == comp.stage \in {"stripped", "resolved"} /\ comp.stripped.tag = "Ok"
Running == ctl \in {"loop", "returned"}
\* the latest step took a branch to a label declared after the last instruction
BranchedToEnd ==
    /\ last.tag = "Step"
    /\ last.instr.op \in BranchOps
    /\ last.res = OkSome(Len(prg))
    /\ \E l \in DOMAIN comp.stripped.v[2] : comp.stripped.v[2][l] = Len(prg)
\* the latest step advanced from the last instruction
FellOffEnd == Advanced /\ last.res.tag = "OkSome" /\ last.pre.pc = Len(prg) - 1

(* C28: for a Program made by strip_symbols and replace_symbols from one whose
   branch targets are all labels, N instructions long after stripping and run
   from PC 0, every symbol address and every PC of the run is at most N, and an
   out-of-bounds fault is PCOutOfBounds(N), reached by falling off the end (of
   the empty Program at once) or by a branch to a label declared after the
   last instruction. *)
C28_CompiledBounds ==
    /\ Stripped
       => \A l \in DOMAIN comp.stripped.v[2] :
            comp.stripped.v[2][l] \in 0..Len(comp.stripped.v[1])
    /\ Running
       => /\ Len(prg) = Len(comp.stripped.v[1])
          /\ state.pc \in 0..Len(prg)
          /\ (ctl = "returned" /\ status.tag = "Some" /\ status.v.e = "PCOutOfBounds")
             => /\ status = Some(PCOutOfBounds(Len(prg)))
                /\ \/ last = NoStep /\ Len(prg) = 0
                   \/ FellOffEnd
                   \/ BranchedToEnd

\* Jmp loop; Halt; loop: was compiled and run: the jump left the Program at address 2
C28_Witness ==
    /\ comp.stage = "resolved"
    /\ comp.input = <<Jmp(LabelOp("loop")), Halt, Label("loop")>>
    /\ prg = <<Jmp(Imm12(2)), Halt>>
    /\ ctl = "returned"
    /\ status = Some(PCOutOfBounds(2))
    /\ BranchedToEnd

====
